---- MODULE Spec2Model ----
(***************************************************************************)
(* Model of the StockApp analytics pipeline (backend/stocks):              *)
(*   PriceData rows  --ATRCalculator.analyze_stock-->  ATRAnalysis rows    *)
(*   ATRAnalysis     --AlertService.process_analysis--> Alert rows         *)
(*   Alert + PriceData --BacktestService._evaluate_alert_outcome--> dict   *)
(*                                                                         *)
(* Numbers.  Prices, ranges and ATRs are counted in ticks of 0.0001, the   *)
(* resolution of the DecimalField(decimal_places=4) columns, so a stored   *)
(* value is an integer.  A value computed in memory by Decimal division    *)
(* (28 significant digits) is kept as an exact fraction <<num, den>> and   *)
(* is rounded half-even to a whole tick when a row is saved.  A nullable   *)
(* column holds None (the empty tuple) or Some(v) (a one-element tuple).   *)
(* Dates are day numbers.                                                  *)
(***************************************************************************)
EXTENDS Integers, Sequences, FiniteSets, Bags, TLC

\* ------------------------------------------------------------------ bounds
\* Day numbers the model covers: 1..MaxDate.
MaxDate == 4
\* settings.ATR_PERIOD (atr_calculator.py:37, default 14), instantiated small.
atr_period == 2
\* settings.VOLUME_AVG_PERIOD (atr_calculator.py:40, default 20), instantiated small.
volume_avg_period == 2
\* At most this many Alert rows are created in a behaviour.
MaxAlerts == 3

\* --------------------------------------------------------------- constants
\* settings.CONSOLIDATION_THRESHOLD_DAYS default.
consolidation_threshold == 3
\* The "+ 5" buffer of both price windows of analyze_stock.
WindowBuffer == 5
\* settings.VOLUME_SPIKE_MULTIPLIER default 1.5, as the fraction 3/2.
volume_spike_multiplier == <<3, 2>>
\* ATRAnalysis.volume_ratio: DecimalField(decimal_places=4), so 10^4 units per 1.
RatioScale == 10000

Stocks == {"AAPL"}
Dates == 1..MaxDate

\* ----------------------------------------------------------------- values
None == <<>>
Some(v) == <<v>>
IsNone(x) == x = <<>>
Val(x) == x[1]

\* Python truthiness of a nullable Decimal column: None and zero are falsy.
Truthy(x) == x # None /\ Val(x) # 0

\* Fractions <<num, den>> with den > 0; None when unset.
Rat(n, d) == <<n, d>>
RatOfInt(v) == <<v, 1>>
RatTruthy(r) == r # None /\ r[1] # 0
RatEq(a, b) == a[1] * b[2] = b[1] * a[2]
RatLe(a, b) == a[1] * b[2] <= b[1] * a[2]

Abs(x) == IF x < 0 THEN 0 - x ELSE x
Max2(a, b) == IF a >= b THEN a ELSE b
Max3(a, b, c) == Max2(a, Max2(b, c))
Min2(a, b) == IF a <= b THEN a ELSE b
SetMin(S) == CHOOSE x \in S : \A y \in S : x <= y
SetMax(S) == CHOOSE x \in S : \A y \in S : y <= x

\* decimal.ROUND_HALF_EVEN of the non-negative fraction n/d to an integer:
\* what Django's DecimalField does when it quantizes a value for the database.
RoundHalfEven(n, d) ==
  LET q == n \div d
      r == n % d
  IN  IF 2 * r < d THEN q
      ELSE IF 2 * r > d THEN q + 1
      ELSE IF q % 2 = 0 THEN q ELSE q + 1

\* A fraction, or None, as DecimalField(decimal_places=4) stores it.
StoreDecimal(r) == IF r = None THEN None ELSE Some(RoundHalfEven(r[1], r[2]))

RECURSIVE SumSeq(_)
SumSeq(s) == IF s = <<>> THEN 0 ELSE Head(s) + SumSeq(Tail(s))

\* Python slice s[a:b] with 0-based a, exclusive b.
Slice(s, a, b) == SubSeq(s, a + 1, Min2(b, Len(s)))

\* ------------------------------------------------------------------ state
VARIABLES
  today,     \* the wall-clock day (date.today(), timezone.now().date())
  prices,    \* PriceData table: [stock -> [date -> None or Some(row)]]
  analyses,  \* ATRAnalysis table: a bag of rows
  alerts,    \* Alert table: a bag of rows
  notifications,  \* Notification table: a bag of rows
  last,      \* the last operation: its name, arguments and what it returned
  reported,  \* history: the first resolved outcome a caller was given
  calls      \* process_analysis calls between their check and their create

vars ==
  <<today, prices, analyses, alerts, notifications, last, reported, calls>>

\* The callers that may run process_analysis at the same time: the scheduled
\* task and a manual request.  No call is under way.
Callers == {"scheduled", "manual"}
NoCalls == [c \in Callers |-> None]

\* PriceData row as the fetcher first stores it (data_fetcher.py:140-151):
\* OHLCV and daily_range; true_range and atr_14 stay null until analysed.
NewPriceData(high, low, close, volume) ==
  [high |-> high, low |-> low, close |-> close, volume |-> volume,
   true_range |-> None, atr_14 |-> None, daily_range |-> Some(high - low)]

\* The bars a fetch may deliver, <<high, low, close, volume>>: a flat day
\* without trades (high = low = close), and a day with a range that closes
\* at its high, on quiet and on 1.5 x quiet volume.
BarChoices ==
  { <<20, 20, 20, 0>>,
    <<22, 20, 22, 2>>,
    <<22, 20, 22, 3>> }

\* Dates of s that have a bar on or before d, most recent first
\* (PriceData.objects.filter(stock, date__lte=d).order_by('-date')).
RECURSIVE DatesDesc(_, _)
DatesDesc(s, d) ==
  IF d < 1 THEN <<>>
  ELSE IF d \notin DOMAIN prices[s] THEN DatesDesc(s, d - 1)
  ELSE IF prices[s][d] # None THEN <<d>> \o DatesDesc(s, d - 1)
  ELSE DatesDesc(s, d - 1)

Reverse(q) == [i \in 1..Len(q) |-> q[Len(q) + 1 - i]]


\* ----------------------------------------------- ATRCalculator: ATR series
\* One PriceData object as _calculate_atr_for_stock holds it in memory: the
\* row plus its date; true_range and atr_14 are fractions (or None) here.
LoadPrice(s, d) ==
  LET row == Val(prices[s][d])
  IN  [date |-> d, high |-> row.high, low |-> row.low, close |-> row.close,
       volume |-> row.volume,
       true_range |-> IF row.true_range = None THEN None
                      ELSE RatOfInt(Val(row.true_range)),
       atr_14 |-> IF row.atr_14 = None THEN None ELSE RatOfInt(Val(row.atr_14)),
       daily_range |-> row.daily_range]

\* True range of bar i of the ascending list (atr_calculator.py:178-186).
TrueRange(sorted_prices, i) ==
  LET price == sorted_prices[i]
  IN  IF i = 1 THEN price.high - price.low
      ELSE LET prev_close == sorted_prices[i - 1].close
               tr1 == price.high - price.low
               tr2 == Abs(price.high - prev_close)
               tr3 == Abs(price.low - prev_close)
           IN  Max3(tr1, tr2, tr3)

\* sum(p.true_range for p in sorted_prices[:atr_period] if p.true_range)
RECURSIVE SumTruthyTrueRange(_)
SumTruthyTrueRange(ps) ==
  IF ps = <<>> THEN 0
  ELSE (IF RatTruthy(Head(ps).true_range) THEN Head(ps).true_range[1] ELSE 0)
       + SumTruthyTrueRange(Tail(ps))

\* Mutant of AtrStep: the first ATR is smoothed onto the value the row
\* already stores, when it stores one, instead of being the plain mean.
AtrStep_SeedsFromStored(done, price, i) ==
  IF i >= atr_period
  THEN IF i = atr_period
       THEN IF RatTruthy(price.atr_14)
            THEN Rat(price.atr_14[1] * (atr_period - 1)
                       + price.true_range[1] * price.atr_14[2],
                     price.atr_14[2] * atr_period)
            ELSE Rat(SumTruthyTrueRange(Append(done, price)), atr_period)
       ELSE LET prev_atr == done[i - 1].atr_14
            IN  IF RatTruthy(prev_atr)
                THEN Rat(prev_atr[1] * (atr_period - 1)
                           + price.true_range[1] * prev_atr[2],
                         prev_atr[2] * atr_period)
                ELSE price.atr_14
  ELSE price.atr_14

\* The atr_14 the loop body leaves on bar i (atr_calculator.py:190-207);
\* done holds bars 1..i-1 as the loop left them, price is bar i with its
\* true_range already set.  A bar the body does not assign keeps the atr_14
\* it was loaded with.
AtrStep(done, price, i) ==
  IF i >= atr_period
  THEN IF i = atr_period
       THEN Rat(SumTruthyTrueRange(Append(done, price)), atr_period)
       ELSE LET prev_atr == done[i - 1].atr_14
            IN  IF RatTruthy(prev_atr)
                THEN Rat(prev_atr[1] * (atr_period - 1)
                           + price.true_range[1] * prev_atr[2],
                         prev_atr[2] * atr_period)
                ELSE price.atr_14
  ELSE price.atr_14

\* The loop of _calculate_atr_for_stock over bars i..n of the ascending list:
\* returns the in-memory list after the loop.
RECURSIVE AtrLoop(_, _, _)
AtrLoop(sorted_prices, done, i) ==
  IF i > Len(sorted_prices) THEN done
  ELSE LET withTr == [sorted_prices[i] EXCEPT
                        !.true_range = RatOfInt(TrueRange(sorted_prices, i))]
           price == [withTr EXCEPT !.atr_14 = AtrStep(done, withTr, i)]
       IN  AtrLoop(sorted_prices, Append(done, price), i + 1)

\* PriceData.save() of an in-memory object (models.py:86-90): daily_range is
\* recomputed when high and low are truthy; the decimals are quantized.
SavePrice(row, price) ==
  [row EXCEPT !.true_range = StoreDecimal(price.true_range),
              !.atr_14 = StoreDecimal(price.atr_14),
              !.daily_range = IF price.high # 0 /\ price.low # 0
                              THEN Some(price.high - price.low)
                              ELSE price.daily_range]

\* The PriceData table of stock s after every object of mem was saved.
SaveAll(s, mem) ==
  [d \in DOMAIN prices[s] |->
     IF \E i \in 1..Len(mem) : mem[i].date = d
     THEN LET i == CHOOSE i \in 1..Len(mem) : mem[i].date = d
          IN  Some(SavePrice(Val(prices[s][d]), mem[i]))
     ELSE prices[s][d]]

\* _calculate_atr_for_stock(stock, price_list): the in-memory list, ascending.
CalculateAtrForStock(price_list) ==
  AtrLoop(Reverse(price_list), <<>>, 1)


\* -------------------------------------- ATRCalculator: streak, volume, tier
\* _count_consecutive_tight_days(price_list), rows most recent first.
RECURSIVE CountConsecutiveTightDays(_)
CountConsecutiveTightDays(price_list) ==
  IF price_list = <<>> THEN 0
  ELSE LET price == Head(price_list)
       IN  IF ~Truthy(price.atr_14) \/ ~Truthy(price.daily_range) THEN 0
           ELSE IF Val(price.daily_range) <= Val(price.atr_14)
                THEN 1 + CountConsecutiveTightDays(Tail(price_list))
                ELSE 0

\* Mutant of CalculateVolumeMetrics: the average starts at the most recent
\* bar.
CalculateVolumeMetrics_IncludesToday(price_list) ==
  IF Len(price_list) < 2 THEN [avg_volume |-> None, volume_ratio |-> None]
  ELSE LET current_volume == price_list[1].volume
           rows == Slice(price_list, 0, volume_avg_period)
           avg_volume == SumSeq([i \in 1..Len(rows) |-> rows[i].volume])
                           \div Len(rows)
       IN  IF avg_volume = 0
           THEN [avg_volume |-> Some(avg_volume), volume_ratio |-> None]
           ELSE [avg_volume |-> Some(avg_volume),
                 volume_ratio |-> Rat(current_volume, avg_volume)]

\* Mutant of CalculateVolumeMetrics: two bars are not enough for a ratio.
CalculateVolumeMetrics_NeedsThreeBars(price_list) ==
  IF Len(price_list) < 3 THEN [avg_volume |-> None, volume_ratio |-> None]
  ELSE LET current_volume == price_list[1].volume
           rows == Slice(price_list, 1, volume_avg_period + 1)
           avg_volume == SumSeq([i \in 1..Len(rows) |-> rows[i].volume])
                           \div Len(rows)
       IN  IF avg_volume = 0
           THEN [avg_volume |-> Some(avg_volume), volume_ratio |-> None]
           ELSE [avg_volume |-> Some(avg_volume),
                 volume_ratio |-> Rat(current_volume, avg_volume)]

\* _calculate_volume_metrics(price_list): avg_volume is None or Some(int),
\* volume_ratio is None or the fraction current_volume / avg_volume.
CalculateVolumeMetrics(price_list) ==
  IF Len(price_list) < 2 THEN [avg_volume |-> None, volume_ratio |-> None]
  ELSE LET current_volume == price_list[1].volume
           rows == Slice(price_list, 1, volume_avg_period + 1)
           volume_data == [i \in 1..Len(rows) |-> rows[i].volume]
       IN  IF volume_data = <<>>
           THEN [avg_volume |-> None, volume_ratio |-> None]
           ELSE LET avg_volume == SumSeq(volume_data) \div Len(volume_data)
                IN  IF avg_volume = 0
                    THEN [avg_volume |-> Some(avg_volume), volume_ratio |-> None]
                    ELSE [avg_volume |-> Some(avg_volume),
                          volume_ratio |-> Rat(current_volume, avg_volume)]

\* is_consolidating (atr_calculator.py:127).
IsConsolidating(consecutive_tight_days) ==
  consecutive_tight_days >= consolidation_threshold

\* Mutant of VolumeSpike: the is_consolidating conjunct is dropped.
VolumeSpike_AnyStreak(volume_ratio, is_consolidating) ==
  /\ volume_ratio # None
  /\ RatLe(volume_spike_multiplier, volume_ratio)

\* volume_spike (atr_calculator.py:130-134).
VolumeSpike(volume_ratio, is_consolidating) ==
  /\ volume_ratio # None
  /\ RatLe(volume_spike_multiplier, volume_ratio)
  /\ is_consolidating

\* Mutant of DetermineProbability: HIGH only above the threshold, so that a
\* spike on the day the threshold is met is MEDIUM.
DetermineProbability_HighAboveThreshold(consecutive_tight_days, is_consolidating, volume_spike) ==
  IF consecutive_tight_days >= consolidation_threshold
  THEN IF volume_spike /\ consecutive_tight_days > consolidation_threshold
       THEN "HIGH" ELSE "MEDIUM"
  ELSE "LOW"

\* _determine_probability.
DetermineProbability(consecutive_tight_days, is_consolidating, volume_spike) ==
  IF consecutive_tight_days >= consolidation_threshold
  THEN IF volume_spike THEN "HIGH" ELSE "MEDIUM"
  ELSE "LOW"

\* ------------------------------------------------------ ATRAnalysis table
\* ATRAnalysis.objects.filter(stock=s, date=d)
AnalysisRows(table, s, d) ==
  {r \in BagToSet(table) : r.stock = s /\ r.date = d}

\* The row of (s, d), None when there is none.
GetAnalysis(table, s, d) ==
  LET rows == AnalysisRows(table, s, d)
  IN  IF rows = {} THEN None ELSE Some(CHOOSE r \in rows : TRUE)

\* How many rows the table holds for (s, d).
AnalysisCount(table, s, d) ==
  LET rows == AnalysisRows(table, s, d)
      RECURSIVE Copies(_)
      Copies(rs) == IF rs = {} THEN 0
                    ELSE LET r == CHOOSE r \in rs : TRUE
                         IN  CopiesIn(r, table) + Copies(rs \ {r})
  IN  Copies(rows)

\* Mutant of FreshAnalysis: a score that falls as the streak grows.
FreshAnalysis_ScoreFallsWithStreak(s, d, defaults) ==
  [stock |-> s, date |-> d,
   current_atr |-> defaults.current_atr,
   current_daily_range |-> defaults.current_daily_range,
   consecutive_tight_days |-> defaults.consecutive_tight_days,
   avg_volume_20d |-> defaults.avg_volume_20d,
   current_volume |-> defaults.current_volume,
   volume_ratio |-> defaults.volume_ratio,
   is_consolidating |-> defaults.is_consolidating,
   volume_spike_detected |-> defaults.volume_spike_detected,
   breakout_probability |-> defaults.breakout_probability,
   confidence_score |-> 100 - defaults.consecutive_tight_days,
   range_tightness_pct |-> None,
   price_at_analysis |-> defaults.price_at_analysis]

\* A new ATRAnalysis row of (s, d) with the given defaults; the columns the
\* caller does not give take the model's defaults (models.py:156-169:
\* confidence_score 0, range_tightness_pct null).
FreshAnalysis(s, d, defaults) ==
  [stock |-> s, date |-> d,
   current_atr |-> defaults.current_atr,
   current_daily_range |-> defaults.current_daily_range,
   consecutive_tight_days |-> defaults.consecutive_tight_days,
   avg_volume_20d |-> defaults.avg_volume_20d,
   current_volume |-> defaults.current_volume,
   volume_ratio |-> defaults.volume_ratio,
   is_consolidating |-> defaults.is_consolidating,
   volume_spike_detected |-> defaults.volume_spike_detected,
   breakout_probability |-> defaults.breakout_probability,
   confidence_score |-> 0,
   range_tightness_pct |-> None,
   price_at_analysis |-> defaults.price_at_analysis]

\* Mutant of UpdateOrCreateAnalysis: objects.create(...) on every call.
UpdateOrCreateAnalysis_AlwaysCreate(table, s, d, defaults) ==
  table (+) SetToBag({FreshAnalysis(s, d, defaults)})

\* ATRAnalysis.objects.update_or_create(stock=s, date=d, defaults=defaults):
\* an existing row takes the defaults and keeps its other columns, otherwise
\* a new row is inserted.
UpdateOrCreateAnalysis(table, s, d, defaults) ==
  LET rows == AnalysisRows(table, s, d)
      fresh == FreshAnalysis(s, d, defaults)
  IN  IF rows = {} THEN table (+) SetToBag({fresh})
      ELSE LET old == CHOOSE r \in rows : TRUE
               new == [fresh EXCEPT
                         !.confidence_score = old.confidence_score,
                         !.range_tightness_pct = old.range_tightness_pct]
           IN  (table (-) SetToBag({old})) (+) SetToBag({new})

\* ------------------------------------------------- ATRCalculator.analyze_stock
\* The first query of analyze_stock: bars of s on or before d, most recent
\* first, at most atr_period + volume_avg_period + 5 of them.
PriceWindow(s, d) ==
  LET dates == Slice(DatesDesc(s, d), 0,
                     atr_period + volume_avg_period + WindowBuffer)
  IN  [i \in 1..Len(dates) |-> LoadPrice(s, dates[i])]

\* The second query, after the ATR values were saved into table (the
\* PriceData rows of s): at most volume_avg_period + 5 rows, most recent first.
RefreshedWindow(table, s, d) ==
  LET dates == Slice(DatesDesc(s, d), 0, volume_avg_period + WindowBuffer)
  IN  [i \in 1..Len(dates) |-> Val(table[dates[i]])]

\* The defaults analyze_stock hands to update_or_create
\* (atr_calculator.py:120-158), from the refreshed rows.
AnalysisDefaults(price_list) ==
  LET latest_price == price_list[1]
      consecutive_tight_days == CountConsecutiveTightDays(price_list)
      vm == CalculateVolumeMetrics(price_list)
      is_consolidating == IsConsolidating(consecutive_tight_days)
      volume_spike == VolumeSpike(vm.volume_ratio, is_consolidating)
  IN  [current_atr |-> Val(latest_price.atr_14),
       current_daily_range |-> IF Truthy(latest_price.daily_range)
                               THEN Val(latest_price.daily_range) ELSE 0,
       consecutive_tight_days |-> consecutive_tight_days,
       avg_volume_20d |-> vm.avg_volume,
       current_volume |-> latest_price.volume,
       volume_ratio |-> IF vm.volume_ratio = None THEN None
                        ELSE StoreDecimal(Rat(vm.volume_ratio[1] * RatioScale,
                                              vm.volume_ratio[2])),
       is_consolidating |-> is_consolidating,
       volume_spike_detected |-> volume_spike,
       breakout_probability |->
         DetermineProbability(consecutive_tight_days, is_consolidating,
                              volume_spike),
       price_at_analysis |-> latest_price.close]

\* What an analyze_stock call leaves in last.
AnalyzeResult(s, d, outcome, mem, price_list, computed, before, after) ==
  [op |-> "analyze_stock", stock |-> s, date |-> d, outcome |-> outcome,
   mem |-> mem, price_list |-> price_list, computed |-> computed,
   before |-> before, after |-> after,
   repeat |-> last.op = "analyze_stock" /\ last.stock = s /\ last.date = d]

\* Mutant of InsufficientData: one bar too few is let through.
InsufficientData_OffByOne(price_list) == Len(price_list) < atr_period - 1

\* len(price_list) < self.atr_period
InsufficientData(price_list) == Len(price_list) < atr_period

\* analyze_stock(stock=s, analysis_date=d).  outcome is "insufficient"
\* (fewer than atr_period bars: nothing is touched), "no_atr" (the ATR loop
\* ran and saved, the latest bar has no usable ATR) or "written".  last
\* keeps the in-memory list the ATR loop left (mem), the refreshed rows
\* (price_list), the defaults computed from them, and the (s, d) row before
\* and after the call.
AnalyzeStock(s, d) ==
  LET price_list == PriceWindow(s, d)
      before == GetAnalysis(analyses, s, d)
  IN  /\ UNCHANGED <<today, alerts, notifications>>
      /\ IF InsufficientData(price_list)
         THEN /\ UNCHANGED <<prices, analyses>>
              /\ last' = AnalyzeResult(s, d, "insufficient", <<>>, <<>>, None,
                                       before, before)
         ELSE \E mem \in {CalculateAtrForStock(price_list)} :
              \E table \in {SaveAll(s, mem)} :
              \E refreshed \in {RefreshedWindow(table, s, d)} :
                  /\ prices' = [prices EXCEPT ![s] = table]
                  /\ IF ~Truthy(refreshed[1].atr_14)
                     THEN /\ UNCHANGED analyses
                          /\ last' = AnalyzeResult(s, d, "no_atr", mem,
                                                   refreshed, None, before,
                                                   before)
                     ELSE LET computed == AnalysisDefaults(refreshed)
                              written == UpdateOrCreateAnalysis(analyses, s, d,
                                                                computed)
                          IN  /\ analyses' = written
                              /\ last' = AnalyzeResult(
                                           s, d, "written", mem, refreshed,
                                           Some(computed), before,
                                           GetAnalysis(written, s, d))

\* ------------------------------------------ ATRCalculator.analyze_all_stocks
\* Stock.objects.filter(is_active=True), in the order of Stock.Meta.ordering;
\* BatchStocks are all the stocks there are.
ActiveStocks == <<"AAPL", "MSFT">>
BatchStocks == {"AAPL", "MSFT", "NVDA"}

\* What analyze_stock(s, d) would do in the current state: its outcome, the
\* PriceData rows of s it leaves and the defaults it writes.  A call touches
\* only the rows of its own stock.
StockAnalysis(s, d) ==
  LET price_list == PriceWindow(s, d)
  IN  IF InsufficientData(price_list)
      THEN [outcome |-> "insufficient", table |-> prices[s],
            computed |-> None]
      ELSE LET mem == CalculateAtrForStock(price_list)
               table == SaveAll(s, mem)
               refreshed == RefreshedWindow(table, s, d)
           IN  IF ~Truthy(refreshed[1].atr_14)
               THEN [outcome |-> "no_atr", table |-> table, computed |-> None]
               ELSE [outcome |-> "written", table |-> table,
                     computed |-> Some(AnalysisDefaults(refreshed))]

\* Mutant of LoopStocks: the first exception ends the loop.
LoopStocks_AbortOnError(raised) ==
  {ActiveStocks[i] : i \in {j \in 1..Len(ActiveStocks) :
                              \A k \in 1..(j - 1) :
                                 ActiveStocks[k] \notin raised}}

\* The stocks the for loop reaches when the calls for the stocks in raised
\* end in an exception: the except clause records the failure and the loop
\* goes on.
LoopStocks(raised) == {ActiveStocks[i] : i \in 1..Len(ActiveStocks)}

\* The ATRAnalysis table after the calls for the stocks ActiveStocks[i..].
RECURSIVE WriteAnalyses(_, _, _)
WriteAnalyses(table, i, done) ==
  IF i > Len(ActiveStocks) THEN table
  ELSE LET s == ActiveStocks[i]
           r == StockAnalysis(s, today)
       IN  WriteAnalyses(
             IF s \in done /\ r.outcome = "written"
             THEN UpdateOrCreateAnalysis(table, s, today, Val(r.computed))
             ELSE table,
             i + 1, done)

\* The entry of results for a stock the loop reached.
BatchEntry(s, raised) ==
  IF s \in raised THEN [success |-> FALSE, error |-> "exception"]
  ELSE LET r == StockAnalysis(s, today)
       IN  IF r.outcome = "written"
           THEN [success |-> TRUE,
                 is_consolidating |-> Val(r.computed).is_consolidating,
                 breakout_probability |->
                   Val(r.computed).breakout_probability,
                 consecutive_tight_days |->
                   Val(r.computed).consecutive_tight_days]
           ELSE [success |-> FALSE, error |-> "Insufficient data"]

\* analyze_all_stocks(), the calls for the stocks in raised ending in an
\* exception: @transaction.atomic undoes what such a call wrote.
AnalyzeAllStocks(raised) ==
  LET reached == LoopStocks(raised)
      done == reached \ raised
  IN  /\ prices' = [s \in DOMAIN prices |->
                      IF s \in done THEN StockAnalysis(s, today).table
                      ELSE prices[s]]
      /\ analyses' = WriteAnalyses(analyses, 1, done)
      /\ last' = [op |-> "analyze_all_stocks", raised |-> raised,
                  results |-> [s \in reached |-> BatchEntry(s, raised)]]
      /\ UNCHANGED <<today, alerts, notifications>>

\* ------------------------------------------- DataFetcher._store_price_data
\* One row of the fetched frame: update_or_create keyed by (stock, date).  A
\* new row has null true_range and atr_14; an updated row keeps them.
StorePriceData(s, d, bar) ==
  LET fresh == NewPriceData(bar[1], bar[2], bar[3], bar[4])
      row == IF prices[s][d] = None THEN fresh
             ELSE [Val(prices[s][d]) EXCEPT
                     !.high = fresh.high, !.low = fresh.low,
                     !.close = fresh.close, !.volume = fresh.volume,
                     !.daily_range = fresh.daily_range]
  IN  /\ prices' = [prices EXCEPT ![s][d] = Some(row)]
      /\ last' = [op |-> "store_price_data", stock |-> s, date |-> d]
      /\ UNCHANGED <<today, analyses, alerts, notifications>>

\* ------------------------------------------------------------ AlertService
\* Mutant of DetermineAlertType: CONSOLIDATION_START at or above the
\* threshold instead of exactly at it.
DetermineAlertType_AtLeastThreshold(analysis) ==
  IF analysis.breakout_probability = "HIGH" THEN Some("BREAKOUT_READY")
  ELSE IF analysis.volume_spike_detected /\ analysis.is_consolidating
       THEN Some("VOLUME_SPIKE")
  ELSE IF analysis.consecutive_tight_days >= consolidation_threshold
       THEN Some("CONSOLIDATION_START")
  ELSE None

\* The if/elif chain that opens Command._create_historical_alert.
HistoricalAlertType(analysis) ==
  IF analysis.breakout_probability = "HIGH" THEN Some("BREAKOUT_READY")
  ELSE IF analysis.volume_spike_detected /\ analysis.is_consolidating
       THEN Some("VOLUME_SPIKE")
  ELSE IF analysis.consecutive_tight_days = consolidation_threshold
       THEN Some("CONSOLIDATION_START")
  ELSE None

\* _determine_alert_type(analysis): None or Some(alert_type).
DetermineAlertType(analysis) ==
  IF analysis.breakout_probability = "HIGH" THEN Some("BREAKOUT_READY")
  ELSE IF analysis.volume_spike_detected /\ analysis.is_consolidating
       THEN Some("VOLUME_SPIKE")
  ELSE IF analysis.consecutive_tight_days = consolidation_threshold
       THEN Some("CONSOLIDATION_START")
  ELSE None

\* Alert.objects.create(stock, alert_type, message, analysis): created_at is
\* auto_now_add, the wall-clock day; the analysis is referenced by its date.
NewAlert(s, alert_type, d, created_at) ==
  [stock |-> s, alert_type |-> alert_type, analysis |-> Some(d),
   created_at |-> created_at, email_sent |-> FALSE, email_sent_at |-> None]

\* Mutant of AlertExistsCreatedOn: the existence check finds nothing.
AlertExistsCreatedOn_Never(s, alert_type, d) == FALSE

\* Alert.objects.filter(stock=s, alert_type=t, created_at__date=d).exists()
AlertExistsCreatedOn(s, alert_type, d) ==
  \E a \in BagToSet(alerts) :
    a.stock = s /\ a.alert_type = alert_type /\ a.created_at = d

\* Alert.objects.filter(stock=s, alert_type=t, analysis__date=d).exists()
AlertExistsForAnalysisDate(s, alert_type, d) ==
  \E a \in BagToSet(alerts) :
    a.stock = s /\ a.alert_type = alert_type /\ a.analysis = Some(d)

\* _create_notification(alert)
NewNotification(alert) ==
  [stock_symbol |-> alert.stock,
   notification_type |->
     CASE alert.alert_type = "CONSOLIDATION_START" -> "INFO"
       [] alert.alert_type = "VOLUME_SPIKE" -> "WARNING"
       [] alert.alert_type = "BREAKOUT_READY" -> "ALERT"
       [] alert.alert_type = "BREAKOUT_OCCURRED" -> "SUCCESS"
       [] OTHER -> "INFO"]

\* What an alert-creating call leaves in last: the type decided, the Alert
\* returned (None when nothing was created), and whether an Alert of that
\* type for the analysis date of (s, d) existed when the call began.
AlertResult(op, s, d, alert_type, returned) ==
  [op |-> op, stock |-> s, date |-> d, alert_type |-> alert_type,
   returned |-> returned,
   already |-> alert_type # None
                 /\ AlertExistsForAnalysisDate(s, Val(alert_type), d)]

\* process_analysis(analysis), analysis being the ATRAnalysis row of (s, d).
ProcessAnalysis(s, d) ==
  /\ GetAnalysis(analyses, s, d) # None
  /\ LET analysis == Val(GetAnalysis(analyses, s, d))
         alert_type == DetermineAlertType(analysis)
     IN  IF alert_type = None
         THEN /\ UNCHANGED <<alerts, notifications>>
              /\ last' = AlertResult("process_analysis", s, d, None, None)
         ELSE IF AlertExistsCreatedOn(s, Val(alert_type), analysis.date)
         THEN /\ UNCHANGED <<alerts, notifications>>
              /\ last' = AlertResult("process_analysis", s, d, alert_type,
                                     None)
         ELSE LET alert == NewAlert(s, Val(alert_type), d, today)
              IN  /\ alerts' = alerts (+) SetToBag({alert})
                  /\ notifications' =
                       notifications (+) SetToBag({NewNotification(alert)})
                  /\ last' = AlertResult("process_analysis", s, d, alert_type,
                                         Some(alert))
  /\ UNCHANGED <<today, prices, analyses>>

\* process_analysis(analysis) by caller c up to its existence check
\* (alert_service.py:37-52): the call returns None when no type is decided or
\* an alert is found, and otherwise goes on to create the alert.  Nothing
\* holds a lock or a transaction between the lookup and the create.
CheckAlertExists(c, s, d) ==
  /\ calls[c] = None
  /\ GetAnalysis(analyses, s, d) # None
  /\ LET analysis == Val(GetAnalysis(analyses, s, d))
         alert_type == DetermineAlertType(analysis)
     IN  IF alert_type = None
         THEN /\ UNCHANGED calls
              /\ last' = AlertResult("process_analysis", s, d, None, None)
         ELSE IF AlertExistsCreatedOn(s, Val(alert_type), analysis.date)
         THEN /\ UNCHANGED calls
              /\ last' = AlertResult("process_analysis", s, d, alert_type,
                                     None)
         ELSE /\ calls' = [calls EXCEPT ![c] =
                             Some([stock |-> s, date |-> d,
                                   alert_type |-> Val(alert_type)])]
              /\ last' = [op |-> "check_alert_exists", caller |-> c,
                          stock |-> s, date |-> d, alert_type |-> alert_type]
  /\ UNCHANGED <<today, prices, analyses, alerts, notifications>>

\* The rest of the call of caller c (alert_service.py:54-70): the Alert and
\* its Notification are created.
CreateCheckedAlert(c) ==
  /\ calls[c] # None
  /\ LET call == Val(calls[c])
         alert == NewAlert(call.stock, call.alert_type, call.date, today)
     IN  /\ alerts' = alerts (+) SetToBag({alert})
         /\ notifications' =
              notifications (+) SetToBag({NewNotification(alert)})
         /\ last' = AlertResult("process_analysis", call.stock, call.date,
                                Some(call.alert_type), Some(alert))
  /\ calls' = [calls EXCEPT ![c] = None]
  /\ UNCHANGED <<today, prices, analyses>>

\* Command._create_historical_alert(analysis) of the backfill command: the
\* duplicate check is on the analysis date, and created_at is then set to
\* the analysis date.
CreateHistoricalAlert(s, d) ==
  /\ GetAnalysis(analyses, s, d) # None
  /\ LET analysis == Val(GetAnalysis(analyses, s, d))
         alert_type == HistoricalAlertType(analysis)
     IN  IF alert_type = None
         THEN /\ UNCHANGED alerts
              /\ last' = AlertResult("create_historical_alert", s, d, None,
                                     None)
         ELSE IF AlertExistsForAnalysisDate(s, Val(alert_type), analysis.date)
         THEN /\ UNCHANGED alerts
              /\ last' = AlertResult("create_historical_alert", s, d,
                                     alert_type, None)
         ELSE LET alert == NewAlert(s, Val(alert_type), d, analysis.date)
              IN  /\ alerts' = alerts (+) SetToBag({alert})
                  /\ last' = AlertResult("create_historical_alert", s, d,
                                         alert_type, Some(alert))
  /\ UNCHANGED <<today, prices, analyses, notifications>>

\* A day passes.
AdvanceDay ==
  /\ today' = today + 1
  /\ last' = [op |-> "advance_day"]
  /\ UNCHANGED <<prices, analyses, alerts, notifications>>

\* --------------------------------------------------------- BacktestService
\* BacktestService.__init__: a move of 2% is a breakout, looked for during
\* the 5 calendar days after the alert.
breakout_threshold_pct == <<20, 10>>
lookforward_days == 5

\* Percentages are kept in hundredths, the two decimals of round(x, 2).
PctScale == 100

\* Mutant of PctMove: the quotient cut to two decimals instead of rounded.
PctMove_Truncated(price, alert_price) ==
  LET n == (price - alert_price) * 100 * PctScale
  IN  IF n >= 0 THEN n \div alert_price ELSE 0 - ((0 - n) \div alert_price)

\* round(((price - alert_price) / alert_price) * 100, 2), in hundredths.
PctMove(price, alert_price) ==
  RoundHalfEven((price - alert_price) * 100 * PctScale, alert_price)

\* Mutant of ForwardWindowPending: the window closes a day early.
ForwardWindowPending_DayEarly(end_date) == end_date - 1 > today

\* Mutant of ForwardWindowPending: the window closes a day late.
ForwardWindowPending_DayLate(end_date) == end_date >= today

\* end_date > timezone.now().date()
ForwardWindowPending(end_date) == end_date > today

\* result['max_gain_pct'] and result['max_gain_pct'] >= float(threshold)
IsBreakout(max_gain_pct) ==
  /\ Truthy(max_gain_pct)
  /\ Val(max_gain_pct) * breakout_threshold_pct[2]
       >= breakout_threshold_pct[1] * PctScale

\* Dates from lo to hi on which s has a bar, ascending: order_by('date').
RECURSIVE DatesAsc(_, _, _)
DatesAsc(s, lo, hi) ==
  IF lo > hi THEN <<>>
  ELSE IF lo \in DOMAIN prices[s] /\ prices[s][lo] # None
       THEN <<lo>> \o DatesAsc(s, lo + 1, hi)
       ELSE DatesAsc(s, lo + 1, hi)

\* Mutant of FuturePrices: the upper end of the window is left open.
FuturePrices_Unbounded(s, alert_date, end_date) ==
  DatesAsc(s, alert_date + 1, today)

\* PriceData.objects.filter(stock=s, date__gt=alert_date, date__lte=end_date)
FuturePrices(s, alert_date, end_date) ==
  DatesAsc(s, alert_date + 1, end_date)

\* PriceData.objects.filter(stock=s, date__lte=d).order_by('-date').first()
LatestPriceUpTo(s, d) ==
  LET dates == DatesAsc(s, 1, d)
  IN  IF dates = <<>> THEN None ELSE prices[s][dates[Len(dates)]]

\* Mutant of ScanFuturePrices: a later bar that equals the highest high takes
\* its place.
RECURSIVE ScanFuturePrices_LatestHigh(_, _, _)
ScanFuturePrices_LatestHigh(s, dates, acc) ==
  IF dates = <<>> THEN acc
  ELSE LET price == Val(prices[s][Head(dates)])
           hi == IF acc.max_price = None \/ price.high >= Val(acc.max_price)
                 THEN [acc EXCEPT !.max_price = Some(price.high),
                                  !.max_price_date = Some(Head(dates))]
                 ELSE acc
           lo == IF hi.min_price = None \/ price.low < Val(hi.min_price)
                 THEN [hi EXCEPT !.min_price = Some(price.low),
                                 !.min_price_date = Some(Head(dates))]
                 ELSE hi
       IN  ScanFuturePrices_LatestHigh(s, Tail(dates), lo)

\* The loop over future_prices: the highest high and the lowest low with the
\* first date on which each is met; acc starts with both unset.
RECURSIVE ScanFuturePrices(_, _, _)
ScanFuturePrices(s, dates, acc) ==
  IF dates = <<>> THEN acc
  ELSE LET price == Val(prices[s][Head(dates)])
           hi == IF acc.max_price = None \/ price.high > Val(acc.max_price)
                 THEN [acc EXCEPT !.max_price = Some(price.high),
                                  !.max_price_date = Some(Head(dates))]
                 ELSE acc
           lo == IF hi.min_price = None \/ price.low < Val(hi.min_price)
                 THEN [hi EXCEPT !.min_price = Some(price.low),
                                 !.min_price_date = Some(Head(dates))]
                 ELSE hi
       IN  ScanFuturePrices(s, Tail(dates), lo)

\* _evaluate_alert_outcome(alert): the result dictionary, prices as stored
\* and percentages in hundredths.
EvaluateAlertOutcome(alert) ==
  LET s == alert.stock
      alert_date == alert.created_at
      result == [status |-> "PENDING", price_at_alert |-> None,
                 max_price_after |-> None, min_price_after |-> None,
                 max_gain_pct |-> None, max_loss_pct |-> None,
                 days_to_breakout |-> None]
      price_at_alert == LatestPriceUpTo(s, alert_date)
  IN  IF price_at_alert = None THEN result
      ELSE
        LET alert_price == Val(price_at_alert).close
            priced == [result EXCEPT !.price_at_alert = Some(alert_price)]
            end_date == alert_date + lookforward_days
        IN  IF ForwardWindowPending(end_date) THEN priced
            ELSE
              LET future_prices == FuturePrices(s, alert_date, end_date)
              IN  IF future_prices = <<>> THEN priced
                  ELSE
                    LET scan == ScanFuturePrices(s, future_prices,
                                  [max_price |-> None, min_price |-> None,
                                   max_price_date |-> None,
                                   min_price_date |-> None])
                        max_gain_pct ==
                          IF Truthy(scan.max_price)
                          THEN Some(PctMove(Val(scan.max_price), alert_price))
                          ELSE None
                        max_loss_pct ==
                          IF Truthy(scan.min_price)
                          THEN Some(PctMove(Val(scan.min_price), alert_price))
                          ELSE None
                    IN  [status |-> IF IsBreakout(max_gain_pct)
                                    THEN "BREAKOUT" ELSE "NO_BREAKOUT",
                         price_at_alert |-> Some(alert_price),
                         max_price_after |->
                           IF Truthy(scan.max_price) THEN scan.max_price
                           ELSE None,
                         min_price_after |->
                           IF Truthy(scan.min_price) THEN scan.min_price
                           ELSE None,
                         max_gain_pct |-> max_gain_pct,
                         max_loss_pct |-> max_loss_pct,
                         days_to_breakout |->
                           IF Truthy(scan.max_price)
                           THEN Some(Val(scan.max_price_date) - alert_date)
                           ELSE None]

\* analyze_alert_performance evaluating one of the stored alerts.
EvaluateAlert(alert) ==
  /\ last' = [op |-> "evaluate_alert_outcome", alert |-> alert,
              result |-> EvaluateAlertOutcome(alert)]
  /\ UNCHANGED <<today, prices, analyses, alerts, notifications>>

\* Alert.objects.create(...) for the analysis of (s, d): created_at is now.
CreateAlert(s, alert_type, d) ==
  /\ alerts' = alerts (+) SetToBag({NewAlert(s, alert_type, d, today)})
  /\ last' = [op |-> "create_alert", stock |-> s, date |-> d]
  /\ UNCHANGED <<today, prices, analyses, notifications>>

\* ------------------------------ BacktestService.analyze_consolidation_patterns
\* The defaults and literals of the pattern analysis: days_back = 90, streaks
\* of at least 3 days, a forward window of 14 calendar days, accuracies
\* rounded to one decimal.
days_back == 90
PatternMinTightDays == 3
PatternWindowDays == 14
AccuracyScale == 10

\* The stocks in primary-key order, as order_by('stock') yields them.
StockOrder == <<"AAPL", "MSFT", "NVDA">>

\* ATRAnalysis.objects.filter(date__gte=cutoff_date, is_consolidating=True,
\* consecutive_tight_days__gte=3).order_by('stock', 'date') over the dates
\* lo..hi of the stocks StockOrder[i..].
RECURSIVE Consolidations(_, _, _, _)
Consolidations(i, d, hi, cutoff_date) ==
  IF i > Len(StockOrder) THEN <<>>
  ELSE IF d > hi THEN Consolidations(i + 1, 1, hi, cutoff_date)
  ELSE LET row == GetAnalysis(analyses, StockOrder[i], d)
           rest == Consolidations(i, d + 1, hi, cutoff_date)
       IN  IF /\ row # None
              /\ d >= cutoff_date
              /\ Val(row).is_consolidating
              /\ Val(row).consecutive_tight_days >= PatternMinTightDays
           THEN <<Val(row)>> \o rest
           ELSE rest

\* A new entry of the patterns list.
NewPattern(analysis) ==
  [stock |-> analysis.stock, start_date |-> analysis.date,
   tight_days |-> analysis.consecutive_tight_days,
   probability |-> analysis.breakout_probability,
   confidence_score |-> analysis.confidence_score]

\* Mutant of GroupPatterns: a streak equal to the recorded one also updates
\* the pattern.
RECURSIVE GroupPatterns_LatestPeak(_, _, _)
GroupPatterns_LatestPeak(patterns, current_stock, consolidations) ==
  IF consolidations = <<>> THEN patterns
  ELSE LET analysis == Head(consolidations)
           n == Len(patterns)
       IN  IF current_stock # Some(analysis.stock)
           THEN GroupPatterns_LatestPeak(
                  Append(patterns, NewPattern(analysis)),
                  Some(analysis.stock), Tail(consolidations))
           ELSE IF analysis.consecutive_tight_days >= patterns[n].tight_days
           THEN GroupPatterns_LatestPeak(
                  [patterns EXCEPT
                     ![n].tight_days = analysis.consecutive_tight_days,
                     ![n].probability = analysis.breakout_probability,
                     ![n].confidence_score = analysis.confidence_score],
                  current_stock, Tail(consolidations))
           ELSE GroupPatterns_LatestPeak(patterns, current_stock,
                                         Tail(consolidations))

\* The grouping loop: patterns so far, current_stock, the analyses left.
RECURSIVE GroupPatterns(_, _, _)
GroupPatterns(patterns, current_stock, consolidations) ==
  IF consolidations = <<>> THEN patterns
  ELSE LET analysis == Head(consolidations)
           n == Len(patterns)
       IN  IF current_stock # Some(analysis.stock)
           THEN GroupPatterns(Append(patterns, NewPattern(analysis)),
                              Some(analysis.stock), Tail(consolidations))
           ELSE IF analysis.consecutive_tight_days > patterns[n].tight_days
           THEN GroupPatterns(
                  [patterns EXCEPT
                     ![n].tight_days = analysis.consecutive_tight_days,
                     ![n].probability = analysis.breakout_probability,
                     ![n].confidence_score = analysis.confidence_score],
                  current_stock, Tail(consolidations))
           ELSE GroupPatterns(patterns, current_stock, Tail(consolidations))

\* The loop of _evaluate_pattern_outcome over future_prices: the highest high
\* and the first date it is met on.
RECURSIVE ScanMaxPrice(_, _, _)
ScanMaxPrice(s, dates, acc) ==
  IF dates = <<>> THEN acc
  ELSE LET price == Val(prices[s][Head(dates)])
       IN  ScanMaxPrice(s, Tail(dates),
             IF acc.max_price = None \/ price.high > Val(acc.max_price)
             THEN [max_price |-> Some(price.high),
                   max_date |-> Some(Head(dates))]
             ELSE acc)

\* _evaluate_pattern_outcome(pattern); max_gain_pct in hundredths.
EvaluatePatternOutcome(pattern) ==
  LET s == pattern.stock
      start_date == pattern.start_date
      result == [symbol |-> s, start_date |-> start_date,
                 tight_days |-> pattern.tight_days,
                 probability |-> pattern.probability,
                 confidence_score |-> pattern.confidence_score,
                 price_at_start |-> None, max_price_after |-> None,
                 max_gain_pct |-> None, days_to_max |-> None,
                 had_breakout |-> FALSE]
      start_price == IF start_date \in DOMAIN prices[s]
                     THEN prices[s][start_date] ELSE None
  IN  IF start_price = None THEN result
      ELSE
        LET close == Val(start_price).close
            priced == [result EXCEPT !.price_at_start = Some(close)]
            end_date == start_date + PatternWindowDays
            future_prices == DatesAsc(s, start_date + 1, end_date)
        IN  IF future_prices = <<>> THEN priced
            ELSE
              LET scan == ScanMaxPrice(s, future_prices,
                            [max_price |-> None, max_date |-> None])
              IN  IF ~Truthy(scan.max_price) THEN priced
                  ELSE
                    LET gain == PctMove(Val(scan.max_price), close)
                    IN  [priced EXCEPT
                           !.max_price_after = scan.max_price,
                           !.max_gain_pct = Some(gain),
                           !.days_to_max =
                              Some(Val(scan.max_date) - start_date),
                           !.had_breakout =
                              gain * breakout_threshold_pct[2]
                                >= breakout_threshold_pct[1] * PctScale]

\* A group of the report while the loop runs.
EmptyGroup == [total |-> 0, breakouts |-> 0, gains |-> <<>>]

\* Mutant of CountInGroup: every pattern with a gain counts as a breakout.
CountInGroup_EveryGain(group, outcome) ==
  [total |-> group.total + 1,
   breakouts |-> group.breakouts
                   + (IF Truthy(outcome.max_gain_pct) THEN 1 ELSE 0),
   gains |-> IF outcome.had_breakout /\ Truthy(outcome.max_gain_pct)
             THEN Append(group.gains, Val(outcome.max_gain_pct))
             ELSE group.gains]

\* The counters of one pattern added to its group.
CountInGroup(group, outcome) ==
  [total |-> group.total + 1,
   breakouts |-> group.breakouts + (IF outcome.had_breakout THEN 1 ELSE 0),
   gains |-> IF outcome.had_breakout /\ Truthy(outcome.max_gain_pct)
             THEN Append(group.gains, Val(outcome.max_gain_pct))
             ELSE group.gains]

\* Mutant of GroupAccuracy: the quotient cut to one decimal.
GroupAccuracy_Truncated(breakouts, total) ==
  IF total > 0 THEN (breakouts * 100 * AccuracyScale) \div total
  ELSE 0

\* round((breakouts / total) * 100, 1) in tenths, 0 for an empty group.
GroupAccuracy(breakouts, total) ==
  IF total > 0 THEN RoundHalfEven(breakouts * 100 * AccuracyScale, total)
  ELSE 0

\* round(sum(gains) / len(gains), 2) in hundredths, 0 without gains.
AverageOf(gains) ==
  IF gains # <<>> THEN RoundHalfEven(SumSeq(gains), Len(gains)) ELSE 0

\* The summary statistics of a group: accuracy and avg_gain set, gains deleted.
CloseGroup(group) ==
  [total |-> group.total, breakouts |-> group.breakouts,
   accuracy |-> GroupAccuracy(group.breakouts, group.total),
   avg_gain |-> AverageOf(group.gains)]

\* The evaluation loop over the patterns: by_probability, by_tight_days,
\* the outcomes and days_to_breakout_list.
RECURSIVE EvaluatePatterns(_, _)
EvaluatePatterns(patterns, acc) ==
  IF patterns = <<>> THEN acc
  ELSE LET pattern == Head(patterns)
           outcome == EvaluatePatternOutcome(pattern)
           prob == pattern.probability
           tight_days == pattern.tight_days
           old == IF tight_days \in DOMAIN acc.by_tight_days
                  THEN acc.by_tight_days[tight_days] ELSE EmptyGroup
       IN  EvaluatePatterns(Tail(patterns),
             [patterns |-> Append(acc.patterns, outcome),
              by_probability |->
                [acc.by_probability EXCEPT
                   ![prob] = CountInGroup(acc.by_probability[prob], outcome)],
              by_tight_days |->
                [k \in DOMAIN acc.by_tight_days \cup {tight_days} |->
                   IF k = tight_days THEN CountInGroup(old, outcome)
                   ELSE acc.by_tight_days[k]],
              days_to_breakout_list |->
                IF outcome.had_breakout /\ Truthy(outcome.days_to_max)
                THEN Append(acc.days_to_breakout_list,
                            Val(outcome.days_to_max))
                ELSE acc.days_to_breakout_list])

Probabilities == {"HIGH", "MEDIUM", "LOW"}

RECURSIVE SumOver(_, _)
SumOver(f, keys) ==
  IF keys = {} THEN 0
  ELSE LET k == CHOOSE k \in keys : TRUE IN f[k] + SumOver(f, keys \ {k})

\* analyze_consolidation_patterns(days_back): the report; accuracies in
\* tenths, gains in hundredths.
PatternReport(hi) ==
  LET cutoff_date == today - days_back
      patterns == GroupPatterns(<<>>, None,
                                Consolidations(1, 1, hi, cutoff_date))
      loop == EvaluatePatterns(patterns,
                [patterns |-> <<>>,
                 by_probability |-> [q \in Probabilities |-> EmptyGroup],
                 by_tight_days |-> <<>>,
                 days_to_breakout_list |-> <<>>])
      by_probability == [q \in Probabilities |->
                           CloseGroup(loop.by_probability[q])]
      by_tight_days == [k \in DOMAIN loop.by_tight_days |->
                          CloseGroup(loop.by_tight_days[k])]
      total_patterns == Len(patterns)
      total_breakouts == SumOver([q \in Probabilities |->
                                    by_probability[q].breakouts],
                                 Probabilities)
  IN  [total_patterns |-> total_patterns,
       patterns |-> loop.patterns,
       by_probability |-> by_probability,
       by_tight_days |-> by_tight_days,
       summary |->
         [overall_accuracy |->
            IF total_patterns > 0
            THEN RoundHalfEven(total_breakouts * 100 * AccuracyScale,
                               total_patterns)
            ELSE 0,
          high_prob_accuracy |->
            IF by_probability["HIGH"].total > 0
            THEN by_probability["HIGH"].accuracy ELSE 0,
          avg_days_to_breakout |->
            IF loop.days_to_breakout_list # <<>>
            THEN RoundHalfEven(SumSeq(loop.days_to_breakout_list)
                                 * AccuracyScale,
                               Len(loop.days_to_breakout_list))
            ELSE 0]]

\* The pattern report requested for the analyses of the days 1..hi.
AnalyzeConsolidationPatterns(hi) ==
  /\ last' = [op |-> "analyze_consolidation_patterns",
              report |-> PatternReport(hi)]
  /\ UNCHANGED <<today, prices, analyses, alerts, notifications>>

\* ----------------------------------- BacktestService.analyze_alert_performance
\* Alert.objects.filter(created_at__gte=cutoff).order_by('-created_at'): the
\* rows of the bag as a list, latest first.
RECURSIVE AlertsLatestFirst(_, _)
AlertsLatestFirst(bag, cutoff_date) ==
  LET rows == {a \in BagToSet(bag) : a.created_at >= cutoff_date}
  IN  IF rows = {} THEN <<>>
      ELSE LET a == CHOOSE x \in rows : \A y \in rows :
                                          y.created_at <= x.created_at
               rest == [r \in rows |-> bag[r]] (-) SetToBag({a})
           IN  <<a>> \o CHOOSE tail \in {AlertsLatestFirst(b, cutoff_date) :
                                            b \in {rest}} : TRUE

\* A by_type or by_stock group while the loop runs.
EmptyAlertGroup ==
  [total |-> 0, breakouts |-> 0, non_breakouts |-> 0, pending |-> 0,
   moves |-> <<>>]

\* Mutant of MovesAfter: only the gains of breakouts are collected.
MovesAfter_GainsOnly(moves, outcome) ==
  IF outcome.status = "BREAKOUT" /\ Truthy(outcome.max_gain_pct)
  THEN Append(moves, Val(outcome.max_gain_pct))
  ELSE moves

\* The moves list after an outcome: the gain of a BREAKOUT, the loss of a
\* NO_BREAKOUT, each only when it is not zero.
MovesAfter(moves, outcome) ==
  IF outcome.status = "BREAKOUT"
  THEN IF Truthy(outcome.max_gain_pct)
       THEN Append(moves, Val(outcome.max_gain_pct)) ELSE moves
  ELSE IF outcome.status = "NO_BREAKOUT"
  THEN IF Truthy(outcome.max_loss_pct)
       THEN Append(moves, Val(outcome.max_loss_pct)) ELSE moves
  ELSE moves

\* One outcome counted in a group.
CountOutcome(group, outcome) ==
  [total |-> group.total + 1,
   breakouts |-> group.breakouts
                   + (IF outcome.status = "BREAKOUT" THEN 1 ELSE 0),
   non_breakouts |-> group.non_breakouts
                       + (IF outcome.status = "NO_BREAKOUT" THEN 1 ELSE 0),
   pending |-> group.pending
                 + (IF outcome.status \notin {"BREAKOUT", "NO_BREAKOUT"}
                    THEN 1 ELSE 0),
   moves |-> MovesAfter(group.moves, outcome)]

\* f with the group of key k replaced by CountOutcome, created when missing.
CountUnder(f, k, outcome) ==
  [x \in DOMAIN f \cup {k} |->
     IF x = k
     THEN CountOutcome(IF k \in DOMAIN f THEN f[k] ELSE EmptyAlertGroup,
                       outcome)
     ELSE f[x]]

\* The body of the loop over the alerts: acc after the outcome of alert.
CountAlert(acc, alert, outcome) ==
  [detailed_alerts |-> Append(acc.detailed_alerts, outcome),
   by_type |-> CountUnder(acc.by_type, alert.alert_type, outcome),
   by_stock |-> CountUnder(acc.by_stock, alert.stock, outcome),
   gains |-> IF outcome.status = "BREAKOUT" /\ Truthy(outcome.max_gain_pct)
             THEN Append(acc.gains, Val(outcome.max_gain_pct))
             ELSE acc.gains,
   losses |-> IF outcome.status = "NO_BREAKOUT"
                 /\ Truthy(outcome.max_loss_pct)
              THEN Append(acc.losses, Val(outcome.max_loss_pct))
              ELSE acc.losses]

\* The loop over the alerts.  Each pass is computed once, as the value next.
RECURSIVE EvaluateAlerts(_, _)
EvaluateAlerts(alert_list, acc) ==
  IF alert_list = <<>> THEN acc
  ELSE CHOOSE result \in
         {EvaluateAlerts(rest, next) :
            rest \in {Tail(alert_list)},
            next \in {CountAlert(acc, Head(alert_list), outcome) :
                        outcome \in {EvaluateAlertOutcome(Head(alert_list))}}} :
         TRUE

\* avg_move_pct set from the moves, the moves deleted.
CloseAlertGroup(group) ==
  [total |-> group.total, breakouts |-> group.breakouts,
   non_breakouts |-> group.non_breakouts, pending |-> group.pending,
   avg_move_pct |-> AverageOf(group.moves)]

SeqMax(q) == SetMax({q[i] : i \in 1..Len(q)})
SeqMin(q) == SetMin({q[i] : i \in 1..Len(q)})

\* analyze_alert_performance(days_back): the report; percentages in
\* hundredths, win_rate in tenths.
AlertPerformance ==
  LET alert_list == AlertsLatestFirst(alerts, today - days_back)
      loop == EvaluateAlerts(alert_list,
                [detailed_alerts |-> <<>>, by_type |-> <<>>,
                 by_stock |-> <<>>, gains |-> <<>>, losses |-> <<>>])
      count(status) ==
        Cardinality({i \in 1..Len(loop.detailed_alerts) :
                       loop.detailed_alerts[i].status = status})
      total_breakouts == count("BREAKOUT")
      total_non_breakouts == count("NO_BREAKOUT")
      evaluated == total_breakouts + total_non_breakouts
  IN  [total_alerts |-> Len(alert_list),
       detailed_alerts |-> loop.detailed_alerts,
       by_type |-> [k \in DOMAIN loop.by_type |->
                      CloseAlertGroup(loop.by_type[k])],
       by_stock |-> [k \in DOMAIN loop.by_stock |->
                       CloseAlertGroup(loop.by_stock[k])],
       summary |->
         [total_breakouts |-> total_breakouts,
          total_non_breakouts |-> total_non_breakouts,
          pending_evaluation |-> Len(alert_list) - evaluated,
          win_rate |-> IF evaluated > 0
                       THEN RoundHalfEven(
                              total_breakouts * 100 * AccuracyScale, evaluated)
                       ELSE 0,
          avg_gain_pct |-> AverageOf(loop.gains),
          avg_loss_pct |-> AverageOf(loop.losses),
          best_gain_pct |-> IF loop.gains # <<>> THEN SeqMax(loop.gains)
                            ELSE 0,
          worst_loss_pct |-> IF loop.losses # <<>> THEN SeqMin(loop.losses)
                             ELSE 0]]

\* The alert report requested.
AnalyzeAlertPerformance ==
  /\ last' = [op |-> "analyze_alert_performance", report |-> AlertPerformance]
  /\ UNCHANGED <<today, prices, analyses, alerts, notifications>>

\* cleanup_old_data(days_to_keep): bars and analyses dated before
\* today - days_to_keep are deleted; alerts stay.
CleanupOldData(days_to_keep) ==
  LET cutoff_date == today - days_to_keep
      kept == {r \in BagToSet(analyses) : ~(r.date < cutoff_date)}
  IN  /\ prices' = [s \in DOMAIN prices |->
                      [d \in DOMAIN prices[s] |->
                         IF d < cutoff_date THEN None ELSE prices[s][d]]]
      /\ analyses' = [r \in kept |-> analyses[r]]
      /\ last' = [op |-> "cleanup_old_data", days_to_keep |-> days_to_keep]
      /\ UNCHANGED <<today, alerts, notifications>>

\* --------------------------------------------------------- specification
NoOp == [op |-> "init"]

Init ==
  /\ today = MaxDate
  /\ prices = [s \in Stocks |-> [d \in Dates |-> None]]
  /\ analyses = EmptyBag
  /\ alerts = EmptyBag
  /\ notifications = EmptyBag
  /\ reported = None
  /\ calls = NoCalls
  /\ last = NoOp

\* The most recent date of s that has a bar, 0 when it has none.
LatestDate(s) ==
  LET dates == DatesDesc(s, MaxDate) IN IF dates = <<>> THEN 0 ELSE dates[1]

\* The analysis pipeline.  The fetcher stores the bar of the next trading
\* day; any stock is analysed for any date (the daily task analyses today,
\* the backfill command every date that has a bar).
Next ==
  \/ \E s \in Stocks, d \in Dates, bar \in BarChoices :
       /\ d = LatestDate(s) + 1
       /\ StorePriceData(s, d, bar)
       /\ UNCHANGED <<reported, calls>>
  \/ \E s \in Stocks, d \in Dates : AnalyzeStock(s, d) /\ UNCHANGED <<reported, calls>>

Spec == Init /\ [][Next]_vars

\* The alert pipeline around the last trading day.  The bars of days
\* 1..MaxDate are stored, today is MaxDate, and one more day may pass without
\* a new bar.  The daily task and the commands analyse today;
\* process_analysis and the backfill's _create_historical_alert run on any
\* stored analysis, any number of times.
InitAlert ==
  /\ today = MaxDate
  /\ prices \in [Stocks -> [Dates -> {Some(NewPriceData(b[1], b[2], b[3], b[4])) :
                                        b \in BarChoices}]]
  /\ analyses = EmptyBag
  /\ alerts = EmptyBag
  /\ notifications = EmptyBag
  /\ reported = None
  /\ calls = NoCalls
  /\ last = NoOp

NextAlert ==
  \/ today <= MaxDate /\ AdvanceDay /\ UNCHANGED <<reported, calls>>
  \/ \E s \in Stocks : AnalyzeStock(s, today) /\ UNCHANGED <<reported, calls>>
  \/ \E s \in Stocks, d \in 1..(MaxDate + 1) :
       /\ BagCardinality(alerts) < MaxAlerts
       /\ ProcessAnalysis(s, d)
       /\ UNCHANGED <<reported, calls>>
  \/ \E s \in Stocks, d \in 1..(MaxDate + 1) :
       /\ BagCardinality(alerts) < MaxAlerts
       /\ CreateHistoricalAlert(s, d)
       /\ UNCHANGED <<reported, calls>>

SpecAlert == InitAlert /\ [][NextAlert]_vars

\* The alert decision as a function of one analysis: the fields it reads are
\* drawn from every combination (rows edited through the admin included),
\* with streaks 0..MaxTightDays.
MaxTightDays == 5

DecisionInputs ==
  [breakout_probability : {"LOW", "MEDIUM", "HIGH"},
   volume_spike_detected : BOOLEAN,
   is_consolidating : BOOLEAN,
   consecutive_tight_days : 0..MaxTightDays]

InitDecide ==
  /\ today = MaxDate
  /\ prices = [s \in Stocks |-> [d \in Dates |-> None]]
  /\ analyses = EmptyBag
  /\ alerts = EmptyBag
  /\ notifications = EmptyBag
  /\ reported = None
  /\ calls = NoCalls
  /\ \E a \in DecisionInputs : last = [op |-> "input", analysis |-> a]

\* Both deciders applied to the analysis.
Decide ==
  /\ last.op = "input"
  /\ last' = [op |-> "determine_alert_type", analysis |-> last.analysis,
              alert_type |-> DetermineAlertType(last.analysis),
              historical_type |-> HistoricalAlertType(last.analysis)]
  /\ UNCHANGED <<today, prices, analyses, alerts, notifications>>

NextDecide == Decide /\ UNCHANGED <<reported, calls>>

SpecDecide == InitDecide /\ [][NextDecide]_vars


\* The backtest over MaxBtDate calendar days.  Each day the fetcher may store
\* the day's bar or miss it, an alert may be created for the analysis of the
\* day or of the day before, and the stored alert may be evaluated at any
\* time.
MaxBtDate == 7
BtDates == 1..MaxBtDate

\* <<high, low, close, volume>> in ticks of 0.0001: a range around a close
\* of 2.0000, a flat day at 2.0000, and a range around a close of 2.0500.
BtBarChoices ==
  { <<20399, 19900, 20000, 1>>,
    <<20000, 20000, 20000, 1>>,
    <<20800, 20300, 20500, 1>> }

InitBacktest ==
  /\ today = 1
  /\ prices = [s \in Stocks |-> [d \in BtDates |-> None]]
  /\ analyses = EmptyBag
  /\ alerts = EmptyBag
  /\ notifications = EmptyBag
  /\ reported = None
  /\ calls = NoCalls
  /\ last = NoOp

NextBacktest ==
  \/ today < MaxBtDate /\ AdvanceDay /\ UNCHANGED <<reported, calls>>
  \/ \E s \in Stocks, bar \in BtBarChoices :
       /\ prices[s][today] = None
       /\ StorePriceData(s, today, bar)
       /\ UNCHANGED <<reported, calls>>
  \/ \E s \in Stocks, d \in {today - 1, today} :
       /\ d >= 1
       /\ alerts = EmptyBag
       /\ CreateAlert(s, "BREAKOUT_READY", d)
       /\ UNCHANGED <<reported, calls>>
  \/ \E alert \in BagToSet(alerts) : EvaluateAlert(alert) /\ UNCHANGED <<reported, calls>>

SpecBacktest == InitBacktest /\ [][NextBacktest]_vars

\* Re-evaluation of one alert after its window has closed.  The alert was
\* created on day 1 and today is day 1 + lookforward_days; every day so far
\* has a bar.  From then on days pass, the fetcher inserts or
\* overwrites the bar of any day up to today, cleanup deletes old bars, and
\* the alert is evaluated at any time.  reported keeps the first resolved
\* outcome, the day it was given, and whether a bar dated within the alert's
\* horizon (up to alert date + lookforward_days) was written or deleted since.
ReBarChoices ==
  { <<20000, 20000, 20000, 1>>,
    <<20800, 20300, 20500, 1>> }

KeepChoices == {3, 5}

ReAlert == NewAlert("AAPL", "BREAKOUT_READY", 1, 1)

Resolved(result) == result.status \in {"BREAKOUT", "NO_BREAKOUT"}

Horizon(alert) == alert.created_at + lookforward_days

RecordOutcome(alert, result) ==
  IF reported = None /\ Resolved(result)
  THEN Some([alert |-> alert, result |-> result, day |-> today,
             touched |-> FALSE])
  ELSE reported

Touch(dates) ==
  IF reported # None /\ \E d \in dates : d <= Horizon(Val(reported).alert)
  THEN Some([Val(reported) EXCEPT !.touched = TRUE])
  ELSE reported

InitReeval ==
  /\ today = 1 + lookforward_days
  /\ prices \in [Stocks -> [BtDates -> {None} \cup
                    {Some(NewPriceData(b[1], b[2], b[3], b[4])) :
                       b \in ReBarChoices}]]
  /\ \A s \in Stocks, d \in BtDates : (d > today) <=> (prices[s][d] = None)
  /\ analyses = EmptyBag
  /\ alerts = SetToBag({ReAlert})
  /\ notifications = EmptyBag
  /\ reported = None
  /\ calls = NoCalls
  /\ last = NoOp

NextReeval ==
  \/ today < MaxBtDate /\ AdvanceDay /\ UNCHANGED <<reported, calls>>
  \/ \E s \in Stocks, d \in BtDates, bar \in ReBarChoices :
       /\ d <= today
       /\ StorePriceData(s, d, bar)
       /\ reported' = Touch({d})
       /\ UNCHANGED calls
  \/ \E days_to_keep \in KeepChoices :
       /\ CleanupOldData(days_to_keep)
       /\ reported' = Touch({d \in BtDates : d < today - days_to_keep})
       /\ UNCHANGED calls
  \/ \E alert \in BagToSet(alerts) :
       /\ EvaluateAlert(alert)
       /\ reported' = RecordOutcome(alert, EvaluateAlertOutcome(alert))
       /\ UNCHANGED calls

SpecReeval == InitReeval /\ [][NextReeval]_vars

\* The pattern report over MaxPatDate days of three stocks.  AAPL has an
\* analysis for every day with the streak its tight and non-tight days
\* give; MSFT and NVDA were either tight throughout or never.  Consolidating
\* analyses are MEDIUM, or HIGH on spike_day.  The bars of AAPL and NVDA are
\* flat until jump_day and trade 4% higher from then on, those of MSFT stay
\* flat; the bar of miss_day is missing.  The report is requested on the
\* last day or after every forward window has closed.
MaxPatDate == 7
PatDates == 1..MaxPatDate

\* consecutive_tight_days of day d for the tight days in tight.
RECURSIVE StreakAt(_, _)
StreakAt(tight, d) ==
  IF d = 0 \/ d \notin tight THEN 0 ELSE 1 + StreakAt(tight, d - 1)

PatternAnalysis(s, d, streak, spike) ==
  [stock |-> s, date |-> d, consecutive_tight_days |-> streak,
   is_consolidating |-> IsConsolidating(streak),
   breakout_probability |->
     DetermineProbability(streak, IsConsolidating(streak),
                          IsConsolidating(streak) /\ spike),
   confidence_score |-> 0]

PatternBars(s, jump_day, miss_day) ==
  [d \in PatDates |->
     IF d = miss_day THEN None
     ELSE IF s # "MSFT" /\ jump_day # 0 /\ d >= jump_day
          THEN Some(NewPriceData(20800, 20300, 20500, 1))
          ELSE Some(NewPriceData(20000, 20000, 20000, 1))]

InitPattern ==
  \E tight \in SUBSET PatDates, other \in {{}, PatDates},
     third \in {{}, PatDates}, spike_day \in {0, 3, 5}, jump_day \in {0, 2, 5, 7},
     miss_day \in {0, 3}, now \in {MaxPatDate, MaxPatDate + PatternWindowDays} :
    /\ today = now
    /\ prices = [s \in {"AAPL", "MSFT", "NVDA"} |->
                   PatternBars(s, jump_day, miss_day)]
    /\ analyses = SetToBag(
         {PatternAnalysis("AAPL", d, StreakAt(tight, d), d = spike_day) :
            d \in PatDates}
         \cup {PatternAnalysis("MSFT", d, StreakAt(other, d), d = spike_day) :
            d \in PatDates}
         \cup {PatternAnalysis("NVDA", d, StreakAt(third, d), FALSE) :
            d \in PatDates})
    /\ alerts = EmptyBag
    /\ notifications = EmptyBag
    /\ reported = None
    /\ calls = NoCalls
    /\ last = NoOp

NextPattern ==
  /\ last = NoOp
  /\ AnalyzeConsolidationPatterns(MaxPatDate)
  /\ UNCHANGED <<reported, calls>>

SpecPattern == InitPattern /\ [][NextPattern]_vars

\* The alert report on day MaxBtDate over up to MaxPerfAlerts alerts of two
\* stocks, created on day 1 or 2 (their windows have closed) or on day 6
\* (still open).  Each stock has a bar on every day: flat at 2.0000 on the
\* first two days and from day 3 on flat, 4% higher, up by 1.995% at the high,
\* or 5% lower at the low.
MaxPerfAlerts == 3

PerfStocks == {"AAPL", "MSFT"}

PerfPaths ==
  { <<20000, 20000, 20000, 1>>,
    <<20800, 20300, 20500, 1>>,
    <<20399, 19900, 20000, 1>>,
    <<20000, 19000, 19200, 1>> }

PerfAlerts ==
  {NewAlert(s, t, d, d) : s \in PerfStocks,
                          t \in {"BREAKOUT_READY", "CONSOLIDATION_START"},
                          d \in {1, 2, 6}}

InitPerformance ==
  \E path \in [PerfStocks -> PerfPaths],
     chosen \in {c \in SUBSET PerfAlerts : Cardinality(c) <= MaxPerfAlerts} :
    /\ today = MaxBtDate
    /\ prices = [s \in PerfStocks |->
                   [d \in BtDates |->
                      IF d < 3 THEN Some(NewPriceData(20000, 20000, 20000, 1))
                      ELSE Some(NewPriceData(path[s][1], path[s][2],
                                             path[s][3], path[s][4]))]]
    /\ analyses = EmptyBag
    /\ alerts = SetToBag(chosen)
    /\ notifications = EmptyBag
    /\ reported = None
    /\ calls = NoCalls
    /\ last = NoOp

NextPerformance ==
  /\ last = NoOp
  /\ AnalyzeAlertPerformance
  /\ UNCHANGED <<reported, calls>>

SpecPerformance == InitPerformance /\ [][NextPerformance]_vars

\* The daily batch over two active stocks and an inactive one.  Every active
\* stock has bars on its first days (none to all of the MaxDate days), the
\* latest of them of any kind; the batch runs, any of its calls may end in an
\* exception, and a single stock may be analysed.
BatchBars(n, early, latest) ==
  [d \in Dates |->
     IF d > n THEN None
     ELSE IF d = n
          THEN Some(NewPriceData(latest[1], latest[2], latest[3], latest[4]))
          ELSE Some(NewPriceData(early[1], early[2], early[3], early[4]))]

InitBatch ==
  /\ today = MaxDate
  /\ \E n, m \in 0..MaxDate, b1, b2, c1 \in BarChoices :
       prices = [s \in BatchStocks |->
                   IF s = "AAPL" THEN BatchBars(n, b1, b2)
                   ELSE IF s = "MSFT" THEN BatchBars(m, c1, c1)
                   ELSE BatchBars(MaxDate, <<22, 20, 22, 2>>,
                                  <<22, 20, 22, 2>>)]
  /\ analyses = EmptyBag
  /\ alerts = EmptyBag
  /\ notifications = EmptyBag
  /\ reported = None
  /\ calls = NoCalls
  /\ last = NoOp

NextBatch ==
  \/ \E raised \in SUBSET {ActiveStocks[i] : i \in 1..Len(ActiveStocks)} :
       AnalyzeAllStocks(raised) /\ UNCHANGED <<reported, calls>>
  \/ \E i \in 1..Len(ActiveStocks) :
       AnalyzeStock(ActiveStocks[i], today) /\ UNCHANGED <<reported, calls>>

SpecBatch == InitBatch /\ [][NextBatch]_vars

\* A history one bar longer than the first window of analyze_stock, analysed
\* day by day.  Every bar has low = close, so its true range is its daily
\* range.  The bars up to the day before the last are stored and today is
\* that day; the last day comes, its bar is stored, and each day is analysed.
SlideDays == atr_period + volume_avg_period + WindowBuffer + 1
SlideDates == 1..SlideDays

\* <<high, low, close, volume>> of a day whose range is r.
SlideBar(r) == <<10000 + r, 10000, 10000, 2>>

\* The ranges a day may have: every day but the first two and the last two
\* has the usual range.
SlideRanges(d) ==
  IF d = 1 THEN {256}
  ELSE IF d = 2 THEN {256, 768}
  ELSE IF d = SlideDays - 1 THEN {128, 256, 262, 300}
  ELSE IF d = SlideDays THEN {128, 256, 300}
  ELSE {256}

InitSlide ==
  /\ today = SlideDays - 1
  /\ \E r \in [1..today -> {128, 256, 262, 300, 768}] :
       /\ \A d \in 1..today : r[d] \in SlideRanges(d)
       /\ prices = [s \in Stocks |->
                      [d \in SlideDates |->
                         IF d > today THEN None
                         ELSE Some(NewPriceData(SlideBar(r[d])[1],
                                                SlideBar(r[d])[2],
                                                SlideBar(r[d])[3],
                                                SlideBar(r[d])[4]))]]
  /\ analyses = EmptyBag
  /\ alerts = EmptyBag
  /\ notifications = EmptyBag
  /\ reported = None
  /\ calls = NoCalls
  /\ last = NoOp

NextSlide ==
  \/ today < SlideDays /\ AdvanceDay /\ UNCHANGED <<reported, calls>>
  \/ \E s \in Stocks, r \in SlideRanges(today) :
       /\ prices[s][today] = None
       /\ StorePriceData(s, today, SlideBar(r))
       /\ UNCHANGED <<reported, calls>>
  \/ \E s \in Stocks :
       /\ prices[s][today] # None
       /\ AnalyzeStock(s, today)
       /\ UNCHANGED <<reported, calls>>

SpecSlide == InitSlide /\ [][NextSlide]_vars

\* _calculate_volume_metrics on its own: any list of up to MaxVolLen rows,
\* most recent first, with volumes 0..MaxVolume.
MaxVolLen == 3
MaxVolume == 4

\* A row of the refreshed list whose volume is v.
LoadedBar(v) == NewPriceData(22, 20, 22, v)

VolumeLists ==
  UNION {[1..n -> {LoadedBar(v) : v \in 0..MaxVolume}] : n \in 0..MaxVolLen}

CalculateVolume ==
  \E price_list \in VolumeLists :
     /\ last' = [op |-> "calculate_volume_metrics", price_list |-> price_list,
                 result |-> CalculateVolumeMetrics(price_list)]
     /\ UNCHANGED <<today, prices, analyses, alerts, notifications>>

NextVolume == CalculateVolume /\ UNCHANGED <<reported, calls>>

SpecVolume == Init /\ [][NextVolume]_vars

\* One trading day.  The bars of days 1..MaxDate are stored and today is
\* MaxDate; the fetcher may deliver today's bar again with other values, and
\* the stock is analysed and its analysis processed any number of times.
NextSameDay ==
  \/ \E s \in Stocks, bar \in BarChoices :
       StorePriceData(s, today, bar) /\ UNCHANGED <<reported, calls>>
  \/ \E s \in Stocks : AnalyzeStock(s, today) /\ UNCHANGED <<reported, calls>>
  \/ \E s \in Stocks :
       /\ BagCardinality(alerts) < MaxAlerts
       /\ ProcessAnalysis(s, today)
       /\ UNCHANGED <<reported, calls>>

SpecSameDay == InitAlert /\ [][NextSameDay]_vars

\* Two callers on one trading day: the stock is analysed, and each caller
\* runs process_analysis on the analysis of today, the steps of the two calls
\* in any order.
NextRace ==
  \/ \E s \in Stocks : AnalyzeStock(s, today) /\ UNCHANGED <<reported, calls>>
  \/ \E c \in Callers, s \in Stocks :
       /\ BagCardinality(alerts) < MaxAlerts
       /\ CheckAlertExists(c, s, today)
       /\ UNCHANGED reported
  \/ \E c \in Callers : CreateCheckedAlert(c) /\ UNCHANGED reported

SpecRace == InitAlert /\ [][NextRace]_vars

\* ------------------------------------------------------------ alert emails
\* send_pending_emails(batch_size=50), as the send_alert_emails task calls it.
batch_size == 50

\* settings.ALERT_RECIPIENT_EMAIL: not configured (the default) or configured.
RecipientChoices == {"", "alerts@example.com"}

\* Mutant of UnsentBatches: the email_sent=False filter is dropped.
UnsentBatches_AnyAlert(limit) ==
  LET rows == BagToSet(alerts)
      size == IF Cardinality(rows) < limit THEN Cardinality(rows) ELSE limit
  IN  {batch \in SUBSET rows :
         /\ Cardinality(batch) = size
         /\ \A a \in batch, b \in rows \ batch : a.created_at >= b.created_at}

\* Alert.objects.filter(email_sent=False)[:batch_size] under the ordering
\* '-created_at' of Alert.Meta: the rows the query may return, any choice
\* among rows of one created_at.
UnsentBatches(limit) ==
  LET rows == {a \in BagToSet(alerts) : ~a.email_sent}
      size == IF Cardinality(rows) < limit THEN Cardinality(rows) ELSE limit
  IN  {batch \in SUBSET rows :
         /\ Cardinality(batch) = size
         /\ \A a \in batch, b \in rows \ batch : a.created_at >= b.created_at}

\* alert.email_sent = True; alert.email_sent_at = timezone.now()
MarkSent(a) == [a EXCEPT !.email_sent = TRUE, !.email_sent_at = Some(today)]

\* The emails that went out and the sends that raised, over all runs so far.
EmailHistory(delivered, failed) ==
  IF reported = None
  THEN [emailed |-> delivered, failed |-> failed]
  ELSE [emailed |-> reported.emailed \cup delivered,
        failed |-> reported.failed \cup failed]

\* send_pending_emails.  Every alert of the batch is tried inside its own
\* try/except: _send_alert_email raises for the alerts outside delivered,
\* alert.save() raises for the delivered alerts outside saved, and either
\* way the loop goes on to the next alert.
SendPendingEmails(recipient_email) ==
  /\ IF recipient_email = ""
     THEN /\ last' = [op |-> "send_pending_emails", attempted |-> {},
                      delivered |-> {}, saved |-> {}, sent_count |-> 0]
          /\ UNCHANGED <<alerts, reported>>
     ELSE \E batch \in UnsentBatches(batch_size) :
          \E delivered \in SUBSET batch :
          \E saved \in SUBSET delivered :
            /\ alerts' = (alerts (-) SetToBag(saved))
                           (+) SetToBag({MarkSent(a) : a \in saved})
            /\ last' = [op |-> "send_pending_emails", attempted |-> batch,
                        delivered |-> delivered, saved |-> saved,
                        sent_count |-> Cardinality(saved)]
            /\ reported' = EmailHistory(delivered, batch \ delivered)
  /\ UNCHANGED <<today, prices, analyses, notifications, calls>>

\* One trading day with the email task: today's bar may be delivered again,
\* the stock is analysed and its analysis processed, and send_pending_emails
\* runs any number of times, one run after the other.
NextEmail ==
  \/ \E s \in Stocks, bar \in BarChoices :
       StorePriceData(s, today, bar) /\ UNCHANGED <<reported, calls>>
  \/ \E s \in Stocks : AnalyzeStock(s, today) /\ UNCHANGED <<reported, calls>>
  \/ \E s \in Stocks :
       /\ BagCardinality(alerts) < MaxAlerts
       /\ ProcessAnalysis(s, today)
       /\ UNCHANGED <<reported, calls>>
  \/ \E recipient_email \in RecipientChoices :
       SendPendingEmails(recipient_email)

SpecEmail == InitAlert /\ [][NextEmail]_vars

\* ============================================================ properties
\* The columns of an ATRAnalysis row that analyze_stock computes.
ComputedColumns(r) ==
  [current_atr |-> r.current_atr,
   current_daily_range |-> r.current_daily_range,
   consecutive_tight_days |-> r.consecutive_tight_days,
   avg_volume_20d |-> r.avg_volume_20d,
   current_volume |-> r.current_volume,
   volume_ratio |-> r.volume_ratio,
   is_consolidating |-> r.is_consolidating,
   volume_spike_detected |-> r.volume_spike_detected,
   breakout_probability |-> r.breakout_probability,
   price_at_analysis |-> r.price_at_analysis]

\* C2: after any sequence of analyze_stock calls the ATRAnalysis table holds
\* at most one row per (stock, date), and a call that wrote leaves exactly
\* one row for its (stock, date), carrying the values that call computed
\* (an already-analysed date is overwritten, not duplicated).
C2_OneAnalysisPerStockDate ==
  /\ \A s \in Stocks, d \in Dates : AnalysisCount(analyses, s, d) <= 1
  /\ (last.op = "analyze_stock" /\ last.outcome = "written") =>
       /\ AnalysisCount(analyses, last.stock, last.date) = 1
       /\ ComputedColumns(Val(GetAnalysis(analyses, last.stock, last.date)))
            = Val(last.computed)

\* C2 witness: an analyze_stock call wrote a (stock, date) that already had
\* a row.
C2_Witness ==
  /\ last.op = "analyze_stock"
  /\ last.outcome = "written"
  /\ last.before # None


\* The in-memory ATR list of the last analyze_stock call that ran the loop.
AtrLoopRan == last.op = "analyze_stock" /\ last.mem # <<>>

\* Sum of the true ranges of bars 1..n of the in-memory list.
RECURSIVE SumTrueRange(_, _)
SumTrueRange(mem, n) ==
  IF n = 0 THEN 0 ELSE mem[n].true_range[1] + SumTrueRange(mem, n - 1)

\* Bar i (> atr_period) of the list obeys Wilder's recursion:
\* atr[i] = (atr[i-1] * (atr_period - 1) + true_range[i]) / atr_period.
WilderAt(mem, i) ==
  /\ mem[i - 1].atr_14 # None
  /\ mem[i].atr_14 # None
  /\ RatEq(mem[i].atr_14,
           Rat(mem[i - 1].atr_14[1] * (atr_period - 1)
                 + mem[i].true_range[1] * mem[i - 1].atr_14[2],
               mem[i - 1].atr_14[2] * atr_period))

\* C3 (as claimed): for every window of at least atr_period bars, whatever
\* the bar values, _calculate_atr_for_stock gives bar atr_period the mean of
\* the first atr_period true ranges and every later bar Wilder's recursion
\* on the previous bar's ATR.
C3_WilderForAllBars ==
  AtrLoopRan =>
    /\ RatEq(last.mem[atr_period].atr_14,
             Rat(SumTrueRange(last.mem, atr_period), atr_period))
    /\ \A i \in (atr_period + 1)..Len(last.mem) : WilderAt(last.mem, i)

\* What the code does keep of C3: the first ATR is
\* the mean, and the recursion holds at every bar whose predecessor's ATR
\* is not zero.
AtrExceptAfterZero ==
  AtrLoopRan =>
    /\ RatEq(last.mem[atr_period].atr_14,
             Rat(SumTrueRange(last.mem, atr_period), atr_period))
    /\ \A i \in (atr_period + 1)..Len(last.mem) :
         RatTruthy(last.mem[i - 1].atr_14) => WilderAt(last.mem, i)

\* A bar is tight as the specification defines it: atr and daily_range are both
\* non-null and daily_range <= atr.
IsTight(price) ==
  /\ price.atr_14 # None
  /\ price.daily_range # None
  /\ Val(price.daily_range) <= Val(price.atr_14)

\* The number of leading tight bars of a most-recent-first list.
RECURSIVE LeadingTight(_)
LeadingTight(price_list) ==
  IF price_list = <<>> THEN 0
  ELSE IF IsTight(Head(price_list)) THEN 1 + LeadingTight(Tail(price_list))
  ELSE 0

\* C4 (as claimed): the streak analyze_stock gets from
\* _count_consecutive_tight_days is exactly the number of leading bars of
\* the most-recent-first list whose atr and daily_range are non-null with
\* daily_range <= atr.
C4_CountsLeadingTightBars ==
  (last.op = "analyze_stock" /\ last.outcome = "written") =>
    Val(last.computed).consecutive_tight_days = LeadingTight(last.price_list)

\* current_volume / avg_volume_20d of a row is at least the multiplier
\* (compared as fractions, before the ratio column is rounded to 4 places).
RatioAtLeastMultiplier(r) ==
  /\ r.avg_volume_20d # None
  /\ Val(r.avg_volume_20d) # 0
  /\ RatLe(volume_spike_multiplier,
           Rat(r.current_volume, Val(r.avg_volume_20d)))

C10_ReanalysisIdempotent ==
  (last.op = "analyze_stock" /\ last.repeat) => last.after = last.before

\* C10 witness: the second of two successive calls for one (stock, date)
\* wrote the row, on a window long enough to smooth past the first ATR.
C10_Witness ==
  /\ last.op = "analyze_stock"
  /\ last.repeat
  /\ last.outcome = "written"
  /\ Len(last.mem) > atr_period


AlertTypes ==
  {"CONSOLIDATION_START", "VOLUME_SPIKE", "BREAKOUT_READY", "BREAKOUT_OCCURRED"}

\* How many Alert rows of type t reference the analysis of (s, d).
AlertCount(s, t, d) ==
  LET rows == {a \in BagToSet(alerts) :
                 a.stock = s /\ a.alert_type = t /\ a.analysis = Some(d)}
      RECURSIVE Copies(_)
      Copies(rs) == IF rs = {} THEN 0
                    ELSE LET r == CHOOSE r \in rs : TRUE
                         IN  CopiesIn(r, alerts) + Copies(rs \ {r})
  IN  Copies(rows)

\* C1 (as claimed): after any sequence of process_analysis invocations, on
\* any wall-clock days, at most one Alert of each alert_type exists per
\* symbol and analysis date, and an invocation whose type was already
\* emitted for that symbol and date creates nothing and returns None.
C1_OneAlertPerTypeSymbolDate ==
  /\ \A s \in Stocks, t \in AlertTypes, d \in 1..(MaxDate + 1) :
       AlertCount(s, t, d) <= 1
  /\ (last.op = "process_analysis" /\ last.already) => last.returned = None

\* What process_analysis does guarantee: at most one
\* Alert of a type per symbol is created by it on the analysis date itself.
OneAlertCreatedOnAnalysisDate ==
  \A s \in Stocks, t \in AlertTypes, d \in 1..(MaxDate + 1) :
    Cardinality({a \in BagToSet(alerts) :
                   a.stock = s /\ a.alert_type = t /\ a.analysis = Some(d)
                     /\ a.created_at = d}) <= 1

\* C6: the alert decision yields at most one type, in fixed priority order:
\* BREAKOUT_READY when the probability is HIGH; otherwise VOLUME_SPIKE when
\* volume_spike and is_consolidating; otherwise CONSOLIDATION_START exactly
\* when consecutive_tight_days equals the threshold; otherwise no alert.
\* process_analysis and the backfill command decide alike.
C6_AlertPriorityOrder ==
  last.op = "determine_alert_type" =>
    LET a == last.analysis
        expected ==
          CASE a.breakout_probability = "HIGH" -> Some("BREAKOUT_READY")
            [] a.breakout_probability # "HIGH"
                 /\ a.volume_spike_detected /\ a.is_consolidating
                 -> Some("VOLUME_SPIKE")
            [] a.breakout_probability # "HIGH"
                 /\ ~(a.volume_spike_detected /\ a.is_consolidating)
                 /\ a.consecutive_tight_days = consolidation_threshold
                 -> Some("CONSOLIDATION_START")
            [] OTHER -> None
    IN  /\ last.alert_type = expected
        /\ last.historical_type = expected

\* C6 witness: a streak above the threshold without spike or HIGH tier was
\* decided as no alert.
C6_Witness ==
  /\ last.op = "determine_alert_type"
  /\ last.analysis.consecutive_tight_days > consolidation_threshold
  /\ last.analysis.breakout_probability = "MEDIUM"
  /\ last.analysis.is_consolidating
  /\ ~last.analysis.volume_spike_detected
  /\ last.alert_type = None


\* ---------------------------------------------------------------- backtest
Evaluated == last.op = "evaluate_alert_outcome"

\* Dates from lo to hi on which s has a bar.
BarDates(s, lo, hi) ==
  {d \in lo..hi : d \in DOMAIN prices[s] /\ prices[s][d] # None}


\* The close of the latest bar of s on or before d (some such bar exists).
CloseAt(s, d) == Val(prices[s][SetMax(BarDates(s, 1, d))]).close

HighestHigh(s, lo, hi) ==
  SetMax({Val(prices[s][d]).high : d \in BarDates(s, lo, hi)})

LowestLow(s, lo, hi) ==
  SetMin({Val(prices[s][d]).low : d \in BarDates(s, lo, hi)})

FiguresUnset(result) ==
  /\ result.max_gain_pct = None
  /\ result.max_loss_pct = None
  /\ result.max_price_after = None
  /\ result.min_price_after = None
  /\ result.days_to_breakout = None

\* C7: an alert whose date (the analysis date it was triggered for, or the
\* date it was created on) plus lookforward_days is later than today is
\* reported PENDING with gain, loss, max/min price after and days to breakout
\* unset, whatever forward bars are stored.
C7_PendingWhileWindowOpen ==
  Evaluated =>
    LET a == last.alert
    IN  (\/ Val(a.analysis) + lookforward_days > today
         \/ a.created_at + lookforward_days > today)
          => last.result.status = "PENDING" /\ FiguresUnset(last.result)

\* C7 witness: three of the five days have passed, forward bars are stored,
\* and the alert was evaluated as PENDING.
C7_Witness ==
  /\ Evaluated
  /\ today = last.alert.created_at + 3
  /\ BarDates(last.alert.stock, 1, last.alert.created_at) # {}
  /\ BarDates(last.alert.stock, last.alert.created_at + 1, today) # {}
  /\ last.result.status = "PENDING"

\* C8 (as claimed): an alert whose forward window has elapsed (created_at
\* date + lookforward_days <= today) is reported BREAKOUT or NO_BREAKOUT,
\* never PENDING, whatever bars are stored.
C8_ResolvedOnceWindowElapsed ==
  (Evaluated /\ last.alert.created_at + lookforward_days <= today)
    => last.result.status \in {"BREAKOUT", "NO_BREAKOUT"}

\* C8 (amended): once the window has elapsed the alert is reported BREAKOUT
\* or NO_BREAKOUT exactly when a bar is stored on or before the alert date
\* and a bar is stored within the window after it; otherwise it stays
\* PENDING with all figures unset.
C8_ResolvedWhenBarsStored ==
  (Evaluated /\ last.alert.created_at + lookforward_days <= today) =>
    LET s == last.alert.stock
        alert_date == last.alert.created_at
    IN  IF /\ BarDates(s, 1, alert_date) # {}
           /\ BarDates(s, alert_date + 1, alert_date + lookforward_days) # {}
        THEN last.result.status \in {"BREAKOUT", "NO_BREAKOUT"}
        ELSE last.result.status = "PENDING" /\ FiguresUnset(last.result)

\* C8 witness: the window closed today, bars are stored at and after the
\* alert date, and the alert was resolved.
C8_Witness ==
  /\ Evaluated
  /\ last.alert.created_at + lookforward_days = today
  /\ BarDates(last.alert.stock, 1, last.alert.created_at) # {}
  /\ BarDates(last.alert.stock, last.alert.created_at + 1, today) # {}
  /\ last.result.status = "NO_BREAKOUT"

\* C9 (as claimed): for a resolved alert max_gain_pct is exactly (highest
\* high of the window - trigger close) / trigger close * 100, max_loss_pct
\* the same from the lowest low, and status is BREAKOUT iff that gain is
\* >= breakout_threshold_pct.
C9_ExactGainAndThreshold ==
  (Evaluated /\ last.result.status # "PENDING") =>
    LET s == last.alert.stock
        alert_date == last.alert.created_at
        close == CloseAt(s, alert_date)
        hh == HighestHigh(s, alert_date + 1, alert_date + lookforward_days)
        ll == LowestLow(s, alert_date + 1, alert_date + lookforward_days)
    IN  /\ last.result.max_gain_pct # None
        /\ Val(last.result.max_gain_pct) * close
             = (hh - close) * 100 * PctScale
        /\ last.result.max_loss_pct # None
        /\ Val(last.result.max_loss_pct) * close
             = (ll - close) * 100 * PctScale
        /\ last.result.status = "BREAKOUT"
             <=> (hh - close) * 100 * breakout_threshold_pct[2]
                   >= breakout_threshold_pct[1] * close

\* C9 (amended): for a resolved alert max_gain_pct and max_loss_pct are those
\* quotients rounded half-even to two decimals, the trigger close being the
\* close of the latest bar on or before the alert date, and status is
\* BREAKOUT iff the rounded gain is >= breakout_threshold_pct.
C9_RoundedGainAndThreshold ==
  (Evaluated /\ last.result.status # "PENDING") =>
    LET s == last.alert.stock
        alert_date == last.alert.created_at
        close == CloseAt(s, alert_date)
        hh == HighestHigh(s, alert_date + 1, alert_date + lookforward_days)
        ll == LowestLow(s, alert_date + 1, alert_date + lookforward_days)
        gain == RoundHalfEven((hh - close) * 100 * PctScale, close)
        loss == RoundHalfEven((ll - close) * 100 * PctScale, close)
    IN  /\ last.result.max_gain_pct = Some(gain)
        /\ last.result.max_loss_pct = Some(loss)
        /\ last.result.max_price_after = Some(hh)
        /\ last.result.min_price_after = Some(ll)
        /\ last.result.status = "BREAKOUT"
             <=> gain * breakout_threshold_pct[2]
                   >= breakout_threshold_pct[1] * PctScale

\* C9 witness: a resolved alert whose exact gain is below the threshold and
\* whose rounded gain reaches it, reported as BREAKOUT.
C9_Witness ==
  /\ Evaluated
  /\ last.result.status = "BREAKOUT"
  /\ LET s == last.alert.stock
         alert_date == last.alert.created_at
         close == CloseAt(s, alert_date)
         hh == HighestHigh(s, alert_date + 1, alert_date + lookforward_days)
     IN  (hh - close) * 100 * breakout_threshold_pct[2]
           < breakout_threshold_pct[1] * close


\* ------------------------------------------------------------ re-evaluation
\* C11 (as claimed): once an evaluation of an alert has reported BREAKOUT or
\* NO_BREAKOUT, every later evaluation of the same alert reports the same
\* status, whatever happened in between (days passing, fetches inserting or
\* updating bars, cleanup deleting bars).
C11_ResolvedStatusNeverChanges ==
  (Evaluated /\ reported # None /\ last.alert = Val(reported).alert)
    => last.result.status = Val(reported).result.status

\* C11 (amended): once resolved, every later evaluation of the alert reports
\* the same status and figures as long as no bar dated up to alert date +
\* lookforward_days was written or deleted in between; days passing and bars
\* of later dates change nothing.
C11_SameOutcomeWhileBarsUntouched ==
  (Evaluated /\ reported # None /\ last.alert = Val(reported).alert
     /\ ~Val(reported).touched)
    => last.result = Val(reported).result

\* C11 witness: the alert was resolved, a day passed, a bar dated after the
\* window was stored, and the alert was evaluated again with the same outcome.
C11_Witness ==
  /\ Evaluated
  /\ reported # None
  /\ ~Val(reported).touched
  /\ today > Val(reported).day
  /\ BarDates(last.alert.stock, Horizon(last.alert) + 1, today) # {}
  /\ last.result = Val(reported).result


\* ----------------------------------------------------------- pattern report
PatternsReported == last.op = "analyze_consolidation_patterns"

\* The analysis of (s, d) passes the filter of the pattern analysis.
Qualifies(s, d) ==
  /\ GetAnalysis(analyses, s, d) # None
  /\ d >= today - days_back
  /\ Val(GetAnalysis(analyses, s, d)).is_consolidating
  /\ Val(GetAnalysis(analyses, s, d)).consecutive_tight_days
       >= PatternMinTightDays

\* The days on which a run of consolidating analyses of s begins.
RunStarts(s) ==
  {d \in PatDates : Qualifies(s, d) /\ (d = 1 \/ ~Qualifies(s, d - 1))}

\* The start dates of the patterns the report lists for s.
ReportedStarts(s) ==
  {last.report.patterns[i].start_date :
     i \in {j \in 1..Len(last.report.patterns) :
              last.report.patterns[j].symbol = s}}

\* C12 (as claimed): a new pattern is started for a symbol whenever its
\* streak resets: the patterns of a symbol are its runs of consolidating
\* analyses, each with its own start date.
C12_NewPatternPerRun ==
  PatternsReported =>
    \A i \in 1..Len(StockOrder) :
      ReportedStarts(StockOrder[i]) = RunStarts(StockOrder[i])

\* What the grouping loop does: one pattern per symbol, started by its first
\* consolidating analysis of the period.
OnePatternPerSymbol ==
  PatternsReported =>
    \A i \in 1..Len(StockOrder) :
      LET s == StockOrder[i]
      IN  ReportedStarts(s) =
            IF RunStarts(s) = {} THEN {} ELSE {SetMin(RunStarts(s))}

\* C13 (as claimed): a pattern whose forward window (start date + 14 days)
\* has not elapsed is not classified from the partial forward bars: no gain
\* is computed and it is not a breakout.
C13_PatternPendingWhileWindowOpen ==
  PatternsReported =>
    \A i \in 1..Len(last.report.patterns) :
      LET outcome == last.report.patterns[i]
      IN  outcome.start_date + PatternWindowDays > today
            => /\ outcome.max_gain_pct = None
               /\ outcome.days_to_max = None
               /\ ~outcome.had_breakout

\* The groups of the report: those of by_probability and of by_tight_days.
ReportGroups ==
  {last.report.by_probability[q] : q \in DOMAIN last.report.by_probability}
    \cup
  {last.report.by_tight_days[k] : k \in DOMAIN last.report.by_tight_days}

\* a tenths is the quotient n / d * 100 rounded to one decimal.
IsPctToOneDecimal(a, n, d) ==
  LET diff == a * d - n * 100 * AccuracyScale
  IN  2 * Abs(diff) <= d

\* C14 (as claimed): every group has accuracy = breakouts / total * 100
\* exactly and breakouts <= total; an empty group has accuracy 0 and
\* average gain 0.
C14_GroupAccuracyExact ==
  PatternsReported =>
    \A g \in ReportGroups :
      /\ g.breakouts <= g.total
      /\ g.total > 0
           => g.accuracy * g.total = g.breakouts * 100 * AccuracyScale
      /\ g.total = 0 => (g.accuracy = 0 /\ g.avg_gain = 0)

\* C14 (amended): every group has accuracy = breakouts / total * 100 rounded
\* to one decimal and breakouts <= total; an empty group, the whole report
\* without patterns included, has accuracy 0 and average gain 0.
C14_GroupAccuracyRounded ==
  PatternsReported =>
    /\ \A g \in ReportGroups :
         /\ g.breakouts <= g.total
         /\ g.total > 0 => IsPctToOneDecimal(g.accuracy, g.breakouts, g.total)
         /\ g.total = 0 => (g.accuracy = 0 /\ g.avg_gain = 0)
    /\ last.report.total_patterns = 0
         => /\ last.report.summary.overall_accuracy = 0
            /\ \A q \in Probabilities :
                 last.report.by_probability[q].total = 0

\* C14 witness: a report with an empty group and a group of three patterns,
\* two of them breakouts.
C14_Witness ==
  /\ PatternsReported
  /\ \E g \in ReportGroups : g.total = 0 /\ g.accuracy = 0
  /\ \E g \in ReportGroups : g.total = 3 /\ g.breakouts = 2

\* The number of entries of the patterns list with had_breakout true.
BreakoutsListed ==
  Cardinality({i \in 1..Len(last.report.patterns) :
                 last.report.patterns[i].had_breakout})

GroupTotalsAgree ==
  /\ SumOver([q \in Probabilities |-> last.report.by_probability[q].total],
             Probabilities) = last.report.total_patterns
  /\ SumOver([k \in DOMAIN last.report.by_tight_days |->
                last.report.by_tight_days[k].total],
             DOMAIN last.report.by_tight_days) = last.report.total_patterns
  /\ Len(last.report.patterns) = last.report.total_patterns

\* C15 (as claimed): overall_accuracy equals breakouts listed /
\* total_patterns * 100 exactly, high_prob_accuracy equals the HIGH group's
\* accuracy, and the group totals each sum to total_patterns.
C15_SummaryExact ==
  PatternsReported =>
    /\ last.report.total_patterns > 0
         => last.report.summary.overall_accuracy * last.report.total_patterns
              = BreakoutsListed * 100 * AccuracyScale
    /\ last.report.summary.high_prob_accuracy
         = last.report.by_probability["HIGH"].accuracy
    /\ GroupTotalsAgree

\* C15 (amended): overall_accuracy equals breakouts listed / total_patterns
\* * 100 rounded to one decimal (0 without patterns), high_prob_accuracy
\* equals the HIGH group's accuracy, and the group totals each sum to
\* total_patterns.
C15_SummaryRounded ==
  PatternsReported =>
    /\ IF last.report.total_patterns > 0
       THEN IsPctToOneDecimal(last.report.summary.overall_accuracy,
                              BreakoutsListed, last.report.total_patterns)
       ELSE last.report.summary.overall_accuracy = 0
    /\ last.report.summary.high_prob_accuracy
         = last.report.by_probability["HIGH"].accuracy
    /\ GroupTotalsAgree

\* C15 witness: three patterns in two probability groups, one of them a
\* breakout, so that the overall accuracy is 33.3.
C15_Witness ==
  /\ PatternsReported
  /\ last.report.total_patterns = 3
  /\ BreakoutsListed = 1
  /\ last.report.by_probability["HIGH"].total > 0
  /\ last.report.by_probability["MEDIUM"].total > 0
  /\ last.report.summary.overall_accuracy = 333


\* ------------------------------------------------------------- alert report
PerformanceReported == last.op = "analyze_alert_performance"

RECURSIVE SumOfSet(_, _)
SumOfSet(f, S) ==
  IF S = {} THEN 0
  ELSE LET x == CHOOSE x \in S : TRUE IN f[x] + SumOfSet(f, S \ {x})

\* avg in hundredths is the mean of f over S rounded to two decimals, 0 for
\* an empty S.
IsMeanToTwoDecimals(avg, f, S) ==
  IF S = {} THEN avg = 0
  ELSE 2 * Abs(avg * Cardinality(S) - SumOfSet(f, S)) <= Cardinality(S)

\* The BREAKOUT alerts of a group, and its NO_BREAKOUT alerts with a loss.
BreakoutsOf(group) ==
  {a \in group : EvaluateAlertOutcome(a).status = "BREAKOUT"}

LosersOf(group) ==
  {a \in group : /\ EvaluateAlertOutcome(a).status = "NO_BREAKOUT"
                 /\ Truthy(EvaluateAlertOutcome(a).max_loss_pct)}

GainOf == [a \in BagToSet(alerts) |-> Val(EvaluateAlertOutcome(a).max_gain_pct)]

MoveOf ==
  [a \in BagToSet(alerts) |->
     IF EvaluateAlertOutcome(a).status = "BREAKOUT"
     THEN Val(EvaluateAlertOutcome(a).max_gain_pct)
     ELSE Val(EvaluateAlertOutcome(a).max_loss_pct)]

\* C16 (as claimed): the average of every alert-type group and every symbol
\* group is the mean (to two decimals) of max_gain_pct over the group's
\* BREAKOUT alerts, 0 when it has none; NO_BREAKOUT and PENDING outcomes
\* never enter it.
C16_AverageOverBreakoutsOnly ==
  PerformanceReported =>
    /\ \A k \in DOMAIN last.report.by_type :
         LET group == {a \in BagToSet(alerts) : a.alert_type = k}
         IN  IsMeanToTwoDecimals(last.report.by_type[k].avg_move_pct,
                                 GainOf, BreakoutsOf(group))
    /\ \A k \in DOMAIN last.report.by_stock :
         LET group == {a \in BagToSet(alerts) : a.stock = k}
         IN  IsMeanToTwoDecimals(last.report.by_stock[k].avg_move_pct,
                                 GainOf, BreakoutsOf(group))

\* C16 (amended): the average of every group is the mean (to two decimals)
\* over the max_gain_pct of its BREAKOUT alerts together with the non-zero
\* max_loss_pct of its NO_BREAKOUT alerts, 0 when there are none; PENDING
\* outcomes never enter it.
C16_AverageOverMoves ==
  PerformanceReported =>
    /\ \A k \in DOMAIN last.report.by_type :
         LET group == {a \in BagToSet(alerts) : a.alert_type = k}
         IN  IsMeanToTwoDecimals(last.report.by_type[k].avg_move_pct,
                                 MoveOf, BreakoutsOf(group) \cup LosersOf(group))
    /\ \A k \in DOMAIN last.report.by_stock :
         LET group == {a \in BagToSet(alerts) : a.stock = k}
         IN  IsMeanToTwoDecimals(last.report.by_stock[k].avg_move_pct,
                                 MoveOf, BreakoutsOf(group) \cup LosersOf(group))
    /\ DOMAIN last.report.by_type = {a.alert_type : a \in BagToSet(alerts)}
    /\ DOMAIN last.report.by_stock = {a.stock : a \in BagToSet(alerts)}

\* C16 witness: an alert type with a BREAKOUT at +4%, a NO_BREAKOUT at -5%
\* and a PENDING alert, reported with an average move of -0.5%.
C16_Witness ==
  /\ PerformanceReported
  /\ \E k \in DOMAIN last.report.by_type :
       /\ last.report.by_type[k].breakouts = 1
       /\ last.report.by_type[k].non_breakouts = 1
       /\ last.report.by_type[k].pending = 1
       /\ last.report.by_type[k].avg_move_pct = -50

\* ------------------------------------------------------------- the batch
BatchReported == last.op = "analyze_all_stocks"

\* The stock has fewer than atr_period bars on or before d.
FewBars(s, d) == Len(PriceWindow(s, d)) < atr_period

\* The ATRAnalysis rows of s are the same before and after the step.
AnalysesKept(s) ==
  \A d \in 1..(MaxDate + 1) :
     GetAnalysis(analyses', s, d) = GetAnalysis(analyses, s, d)

InsufficientEntry == [success |-> FALSE, error |-> "Insufficient data"]

\* C17  With fewer than atr_period bars on or before the analysis date,
\* analyze_stock returns None, writes no ATRAnalysis row and changes no bar;
\* analyze_all_stocks reports such a stock as not successful with the reason
\* 'Insufficient data'.
C17_InsufficientDataIsNoAnalysis ==
  [][/\ (last'.op = "analyze_stock" /\ FewBars(last'.stock, last'.date)) =>
          /\ last'.outcome = "insufficient"
          /\ last'.computed = None
          /\ prices' = prices
          /\ analyses' = analyses
     /\ last'.op = "analyze_all_stocks" =>
          \A i \in 1..Len(ActiveStocks) :
             LET s == ActiveStocks[i]
             IN  (s \notin last'.raised /\ FewBars(s, today)) =>
                   /\ s \in DOMAIN last'.results
                   /\ last'.results[s] = InsufficientEntry
                   /\ prices'[s] = prices[s]
                   /\ AnalysesKept(s)]_vars

\* A batch that found one active stock with a single bar and analysed the
\* other.
C17_Witness ==
  /\ BatchReported
  /\ last.raised = {}
  /\ \E s, t \in DOMAIN last.results :
       /\ Len(PriceWindow(s, today)) = 1
       /\ last.results[s] = InsufficientEntry
       /\ last.results[t].success

ActiveSet == {ActiveStocks[i] : i \in 1..Len(ActiveStocks)}

\* The call for s met neither an exception nor a missing analysis.
Analysable(s, raised) ==
  s \notin raised /\ StockAnalysis(s, today).outcome = "written"

\* The entry of s says success and agrees with the row of (s, today) that the
\* step left in the table.
AnalysedAndKept(s) ==
  LET entry == last'.results[s]
      row == GetAnalysis(analyses', s, today)
  IN  /\ entry.success
      /\ row # None
      /\ Val(row).is_consolidating = entry.is_consolidating
      /\ Val(row).breakout_probability = entry.breakout_probability
      /\ Val(row).consecutive_tight_days = entry.consecutive_tight_days
      /\ Val(row).consecutive_tight_days =
           Val(StockAnalysis(s, today).computed).consecutive_tight_days

\* C18  In analyze_all_stocks an exception or a missing analysis for one
\* stock does not stop the loop: results has one entry for every active
\* stock and for no other, every stock that can be analysed is analysed and
\* its row of today is in the table after the batch, and the rows of a stock
\* whose call ended in an exception are as they were.
C18_CollectAndContinue ==
  [][last'.op = "analyze_all_stocks" =>
       /\ DOMAIN last'.results = ActiveSet
       /\ \A s \in ActiveSet :
            /\ Analysable(s, last'.raised) => AnalysedAndKept(s)
            /\ ~Analysable(s, last'.raised) =>
                 /\ ~last'.results[s].success
                 /\ AnalysesKept(s)]_vars

\* A batch whose first call ended in an exception and whose second call
\* wrote an analysis.
C18_Witness ==
  /\ BatchReported
  /\ last.raised = {ActiveStocks[1]}
  /\ last.results[ActiveStocks[1]] = [success |-> FALSE, error |-> "exception"]
  /\ last.results[ActiveStocks[2]].success
  /\ GetAnalysis(analyses, ActiveStocks[2], today) # None

\* ------------------------------------------------------------ the streak
\* The analysis of (s, d) says that the day's range is above its ATR.
NotTight(row) == row.current_daily_range > row.current_atr

\* C19  The analysis of a day whose daily range is above its ATR records a
\* streak of 0, and the analysis of the next trading day records a streak of
\* at most 1: no streak spans a day that was not tight.
C19_StreakRestartsAfterNonTightDay ==
  \A row \in BagToSet(analyses) :
     NotTight(row) =>
       /\ row.consecutive_tight_days = 0
       /\ \A next \in BagToSet(analyses) :
            (next.stock = row.stock /\ next.date = row.date + 1) =>
              next.consecutive_tight_days <= 1

\* Within one call the scan stops at the first bar that is not tight: the
\* streak is at most the number of bars read before one whose range, as the
\* call reads it, is above its ATR.
StreakStopsAtNonTightBar ==
  (last.op = "analyze_stock" /\ last.outcome = "written") =>
    \A i \in 1..Len(last.price_list) :
       LET price == last.price_list[i]
       IN  (price.daily_range # None /\ price.atr_14 # None
            /\ Val(price.daily_range) > Val(price.atr_14)) =>
             Val(last.computed).consecutive_tight_days <= i - 1

\* ------------------------------------------------------- the volume average
AnalysisWritten == last.op = "analyze_stock" /\ last.outcome = "written"

\* The sum of the volumes of rows a..b of the list (1 is the most recent).
RECURSIVE VolumeSum(_, _, _)
VolumeSum(price_list, a, b) ==
  IF a > b THEN 0
  ELSE price_list[a].volume + VolumeSum(price_list, a + 1, b)

\* C20  avg_volume is the integer-truncated mean of the volumes of the
\* volume_avg_period bars before the most recent bar, whose own volume is
\* not part of the average.
C20_AverageOverFullPeriod ==
  (AnalysisWritten /\ Val(last.computed).avg_volume_20d # None) =>
    /\ Len(last.price_list) >= volume_avg_period + 1
    /\ Val(Val(last.computed).avg_volume_20d) =
         VolumeSum(last.price_list, 2, volume_avg_period + 1)
           \div volume_avg_period

\* C20, amended: the mean is taken over the volume_avg_period bars before the
\* most recent bar, or over all the bars before it when there are fewer; with
\* no bar before the most recent one there is no average.
C20_AverageOverPrecedingBars ==
  AnalysisWritten =>
    LET n == Len(last.price_list)
        k == Min2(volume_avg_period, n - 1)
        avg_volume == Val(last.computed).avg_volume_20d
    IN  IF n < 2 THEN avg_volume = None
        ELSE avg_volume = Some(VolumeSum(last.price_list, 2, k + 1) \div k)

\* An analysis whose average is truncated and differs from the mean that
\* includes the most recent bar.
C20_Witness ==
  /\ AnalysisWritten
  /\ Len(last.price_list) >= volume_avg_period + 1
  /\ VolumeSum(last.price_list, 2, volume_avg_period + 1)
       % volume_avg_period # 0
  /\ VolumeSum(last.price_list, 1, volume_avg_period) \div volume_avg_period
       # VolumeSum(last.price_list, 2, volume_avg_period + 1)
           \div volume_avg_period
  /\ Val(last.computed).avg_volume_20d =
       Some(VolumeSum(last.price_list, 2, volume_avg_period + 1)
              \div volume_avg_period)

\* ---------------------------------------------------------- the volume ratio
VolumeReported == last.op = "calculate_volume_metrics"

\* C21  volume_ratio is None exactly when the list has fewer than 2 rows or
\* the average volume is zero; otherwise it is current_volume / avg_volume,
\* and the computation never divides by zero.
C21_RatioUndefinedExactlyWhenNoAverage ==
  VolumeReported =>
    LET price_list == last.price_list
        n == Len(price_list)
        k == Min2(volume_avg_period, n - 1)
        ratio == last.result.volume_ratio
    IN  IF n < 2 THEN ratio = None
        ELSE LET avg_volume == VolumeSum(price_list, 2, k + 1) \div k
             IN  IF avg_volume = 0 THEN ratio = None
                 ELSE /\ ratio # None
                      /\ ratio[2] # 0
                      /\ ratio[1] * avg_volume = price_list[1].volume * ratio[2]

\* Trades today after days whose volumes average below one: no ratio, and no
\* division by the zero average.
C21_Witness ==
  /\ VolumeReported
  /\ Len(last.price_list) >= 2
  /\ last.price_list[1].volume > 0
  /\ VolumeSum(last.price_list, 2, Len(last.price_list)) > 0
  /\ last.result.avg_volume = Some(0)
  /\ last.result.volume_ratio = None

\* ------------------------------------------------------- alerts of one day
\* How many Alert rows of stock s created on day d satisfy Type.
AlertsOfDay(s, d, types) ==
  BagCardinality([a \in {x \in BagToSet(alerts) :
                           x.stock = s /\ x.created_at = d
                             /\ x.alert_type \in types} |-> alerts[a]])

AlertCategories ==
  {"CONSOLIDATION_START", "VOLUME_SPIKE", "BREAKOUT_READY",
   "BREAKOUT_OCCURRED"}

\* C22  After any analyze_stock and process_analysis runs for a symbol on one
\* day, re-analysis of changed bars included, at most one Alert of any
\* category exists for the symbol and the day.
C22_OneAlertPerSymbolDay ==
  \A s \in Stocks : AlertsOfDay(s, today, AlertCategories) <= 1

\* C22, amended: at most one Alert of each category exists for the symbol and
\* the day; alerts of different categories may stand side by side.
C22_OneAlertPerCategorySymbolDay ==
  \A s \in Stocks, t \in AlertCategories : AlertsOfDay(s, today, {t}) <= 1

\* The day's bar came again with more volume, the classification moved from
\* CONSOLIDATION_START to BREAKOUT_READY, and both alerts exist.
C22_Witness ==
  \E s \in Stocks :
     /\ AlertsOfDay(s, today, {"CONSOLIDATION_START"}) = 1
     /\ AlertsOfDay(s, today, {"BREAKOUT_READY"}) = 1
     /\ last.op = "process_analysis"
     /\ last.returned # None
     /\ Val(last.returned).alert_type = "BREAKOUT_READY"

\* ------------------------------------------------------- overlapping calls
\* How many Notification rows of stock s have the type of category t.
NotificationsOf(s, t) ==
  BagCardinality([n \in {x \in BagToSet(notifications) :
                           /\ x.stock_symbol = s
                           /\ x.notification_type =
                                NewNotification(NewAlert(s, t, today, today))
                                  .notification_type} |-> notifications[n]])

\* C23  When process_analysis calls for the same analysis overlap, at most
\* one Alert of the decided type is created for the symbol and the date, and
\* at most one Notification for it.
C23_OverlappingCallsCreateOneAlert ==
  \A s \in Stocks, t \in AlertCategories :
     /\ AlertsOfDay(s, today, {t}) <= 1
     /\ NotificationsOf(s, t) <= 1

\* ------------------------------------------------------ the ATR of a bar
\* The bars of s up to day d have the same prices before and after the step.
SameBarsUpTo(s, d) ==
  \A e \in DOMAIN prices[s] :
     e <= d =>
       /\ (prices[s][e] = None) <=> (prices'[s][e] = None)
       /\ prices[s][e] # None =>
            /\ Val(prices'[s][e]).high = Val(prices[s][e]).high
            /\ Val(prices'[s][e]).low = Val(prices[s][e]).low
            /\ Val(prices'[s][e]).close = Val(prices[s][e]).close

\* The step stores an ATR for the bar of (s, d), which had one already.
AtrStoredAgain(s, d) ==
  /\ last'.op = "analyze_stock"
  /\ last'.stock = s
  /\ \E i \in 1..Len(last'.mem) :
       last'.mem[i].date = d /\ last'.mem[i].atr_14 # None
  /\ prices[s][d] # None
  /\ Val(prices[s][d]).atr_14 # None

\* C24  The ATR stored for a bar depends on the bar and the bars before it
\* only: an analyze_stock run for another analysis date that computes the ATR
\* of the bar again over unchanged prices stores the value it had.
C24_AtrOfBarIsStable ==
  [][\A s \in DOMAIN prices : \A d \in DOMAIN prices[s] :
       (AtrStoredAgain(s, d) /\ SameBarsUpTo(s, d)) =>
         Val(prices'[s][d]).atr_14 = Val(prices[s][d]).atr_14]_vars

\* C25  After analyze_stock has processed a window, the first atr_period - 1
\* bars of the window, in date order, have a null ATR, whatever was analysed
\* before.
C25_NullAtrBeforeWarmUp ==
  (last.op = "analyze_stock" /\ last.outcome # "insufficient") =>
    \A i \in 1..(atr_period - 1) :
       i <= Len(last.mem) =>
         Val(prices[last.stock][last.mem[i].date]).atr_14 = None

\* ------------------------------------------------------ the confidence score
\* Two analyses measured the same ATR, range, volumes and price.
SameMeasures(r, q) ==
  /\ r.current_atr = q.current_atr
  /\ r.current_daily_range = q.current_daily_range
  /\ r.avg_volume_20d = q.avg_volume_20d
  /\ r.current_volume = q.current_volume
  /\ r.volume_ratio = q.volume_ratio
  /\ r.price_at_analysis = q.price_at_analysis

\* C26  Every stored ATRAnalysis has a confidence_score from 0 to 100, and of
\* two analyses that differ in consecutive_tight_days only, the one with the
\* longer streak has a score at least as high.
C26_ConfidenceBoundedAndMonotone ==
  \A r \in BagToSet(analyses) :
     /\ r.confidence_score >= 0
     /\ r.confidence_score <= 100
     /\ \A q \in BagToSet(analyses) :
          (SameMeasures(r, q)
           /\ r.consecutive_tight_days > q.consecutive_tight_days) =>
            r.confidence_score >= q.confidence_score

\* Two stored analyses with the same measures and streaks 1 and 2.
C26_Witness ==
  \E r, q \in BagToSet(analyses) :
     /\ SameMeasures(r, q)
     /\ r.consecutive_tight_days = 2
     /\ q.consecutive_tight_days = 1
     /\ r.confidence_score >= q.confidence_score

\* ------------------------------------------------------ the peak of a pattern
\* The analyses grouped into the pattern of s: those of s that pass the
\* filter.
Grouped(s) == {d \in PatDates : Qualifies(s, d)}

StreakOf(s, d) == Val(GetAnalysis(analyses, s, d)).consecutive_tight_days

PeakStreak(s) == SetMax({StreakOf(s, d) : d \in Grouped(s)})

\* The first day on which an analysis of the group carries the peak streak.
PeakDay(s) == SetMin({d \in Grouped(s) : StreakOf(s, d) = PeakStreak(s)})

\* C27  The tight_days of a pattern is the highest consecutive_tight_days of
\* the analyses grouped into it, and its probability and confidence_score
\* are those of the analysis that carries this peak, the earliest one when
\* several do.
C27_PatternRecordsPeak ==
  PatternsReported =>
    \A i \in 1..Len(last.report.patterns) :
       LET pattern == last.report.patterns[i]
           s == pattern.symbol
           peak == Val(GetAnalysis(analyses, s, PeakDay(s)))
       IN  /\ pattern.tight_days = PeakStreak(s)
           /\ pattern.probability = peak.breakout_probability
           /\ pattern.confidence_score = peak.confidence_score

\* A pattern that began with a MEDIUM analysis and grew to a peak with a
\* volume spike: it records the streak and the HIGH of the peak.
C27_Witness ==
  /\ PatternsReported
  /\ \E i \in 1..Len(last.report.patterns) :
       LET pattern == last.report.patterns[i]
           s == pattern.symbol
           start == Val(GetAnalysis(analyses, s, pattern.start_date))
       IN  /\ pattern.tight_days > start.consecutive_tight_days
           /\ pattern.tight_days = PeakStreak(s)
           /\ pattern.probability = "HIGH"
           /\ start.breakout_probability = "MEDIUM"

\* ------------------------------------------------ days to the highest high

\* The bars of the forward window of the evaluated alert, in date order.
WindowOf(alert) ==
  FuturePrices(alert.stock, alert.created_at,
               alert.created_at + lookforward_days)

HighOn(alert, d) == Val(prices[alert.stock][d]).high

\* The 1-based position in the window of the earliest bar that has the
\* highest high of the window.
EarliestMaxIndex(alert) ==
  LET window == WindowOf(alert)
  IN  CHOOSE i \in 1..Len(window) :
        /\ \A j \in 1..Len(window) :
             HighOn(alert, window[j]) <= HighOn(alert, window[i])
        /\ \A j \in 1..(i - 1) :
             HighOn(alert, window[j]) < HighOn(alert, window[i])

ResolvedEvaluation == Evaluated /\ Resolved(last.result)

\* C28 (as stated) The days to the highest high of a resolved alert are the
\* 1-based position, among the bars of the forward window in date order, of
\* the earliest bar whose high is the highest of the window.
C28_DaysToMaxIsBarIndex ==
  ResolvedEvaluation =>
    last.result.days_to_breakout = Some(EarliestMaxIndex(last.alert))

\* C28 (amended) The days to the highest high of a resolved alert are the
\* calendar days from the date of the alert to the date of the earliest bar
\* of the forward window whose high is the highest of the window; they are
\* that bar's 1-based position when every day from the alert to that bar
\* has a bar.
C28_DaysToMaxIsDateDifference ==
  ResolvedEvaluation =>
    LET alert == last.alert
        window == WindowOf(alert)
        i == EarliestMaxIndex(alert)
    IN  /\ last.result.days_to_breakout
             = Some(window[i] - alert.created_at)
        /\ last.result.max_price_after = Some(HighOn(alert, window[i]))
        /\ (\A j \in 1..i : window[j] = alert.created_at + j)
             => last.result.days_to_breakout = Some(i)

\* A breakout whose highest high is met twice, the first time on the second
\* bar of the window, which is three days after the alert.
C28_Witness ==
  /\ ResolvedEvaluation
  /\ last.result.status = "BREAKOUT"
  /\ LET alert == last.alert
         window == WindowOf(alert)
     IN  /\ EarliestMaxIndex(alert) = 2
         /\ last.result.days_to_breakout = Some(3)
         /\ \E j \in 3..Len(window) :
              HighOn(alert, window[j]) = HighOn(alert, window[2])

\* ------------------------------------------- alert types never produced

\* An analysis that has a volume spike while consolidating.
SpikeWhileConsolidating(analysis) ==
  analysis.volume_spike_detected /\ analysis.is_consolidating

UnusedAlertTypes == {"VOLUME_SPIKE", "BREAKOUT_OCCURRED"}

\* C29 Every analysis stored by analyze_stock that has a volume spike while
\* consolidating is HIGH and is decided as BREAKOUT_READY, no stored analysis
\* is decided as VOLUME_SPIKE or BREAKOUT_OCCURRED, and no alert of either
\* type is ever created.
C29_NoVolumeSpikeOrBreakoutOccurredAlert ==
  /\ \A analysis \in BagToSet(analyses) :
       /\ SpikeWhileConsolidating(analysis) =>
            /\ analysis.breakout_probability = "HIGH"
            /\ DetermineAlertType(analysis) = Some("BREAKOUT_READY")
       /\ DetermineAlertType(analysis) = None
            \/ Val(DetermineAlertType(analysis)) \notin UnusedAlertTypes
  /\ \A a \in BagToSet(alerts) : a.alert_type \notin UnusedAlertTypes
  /\ last.op = "process_analysis" /\ last.returned # None
       => Val(last.returned).alert_type \notin UnusedAlertTypes

\* process_analysis has created the alert of an analysis that has a volume
\* spike while consolidating: a BREAKOUT_READY alert.
C29_Witness ==
  /\ last.op = "process_analysis"
  /\ last.returned # None
  /\ Val(last.returned).alert_type = "BREAKOUT_READY"
  /\ GetAnalysis(analyses, last.stock, last.date) # None
  /\ SpikeWhileConsolidating(Val(GetAnalysis(analyses, last.stock, last.date)))

\* ------------------------------------------------------------ alert emails

SendRun == last'.op = "send_pending_emails"

UnsentRows == {a \in BagToSet(alerts) : ~a.email_sent}

\* C30 Over sequential send_pending_emails runs the email_sent flag of an
\* alert changes only from False to True and only in the run that has just
\* sent the alert's own email; an alert whose send fails stays as it was,
\* unsent, while the other alerts of the batch are still tried, and being
\* unsent it is in the batch of the next run; an alert marked sent is in no
\* batch and is never changed again.
C30_EmailSentFollowsOwnSend ==
  [][ /\ \A a \in BagToSet(alerts) :
           /\ a.email_sent => a \in BagToSet(alerts')
           /\ ~a.email_sent /\ a \notin BagToSet(alerts') =>
                /\ SendRun
                /\ a \in last'.delivered
                /\ MarkSent(a) \in BagToSet(alerts')
      /\ \A b \in BagToSet(alerts') :
           b.email_sent /\ b \notin BagToSet(alerts) =>
             \E a \in UnsentRows : b = MarkSent(a)
      /\ SendRun =>
           /\ last'.attempted \subseteq UnsentRows
           /\ last'.attempted # {} => last'.attempted = UnsentRows
           /\ \A a \in last'.attempted \ last'.delivered :
                a \in BagToSet(alerts')
           /\ \A a \in BagToSet(alerts) :
                a.email_sent => a \notin last'.delivered
    ]_vars

\* A run in which one alert whose send had failed in an earlier run is sent
\* and marked, while the send of another alert of the same batch fails and
\* that alert stays unsent.
C30_Witness ==
  /\ last.op = "send_pending_emails"
  /\ reported # None
  /\ \E a \in last.saved :
       /\ a \in reported.failed
       /\ MarkSent(a) \in BagToSet(alerts)
  /\ \E b \in last.attempted \ last.delivered :
       /\ b \in BagToSet(alerts)
       /\ ~b.email_sent

====
